---- MODULE Spec2Model ----
(***************************************************************************)
(* Filtering@k on attribute-sorted result lists: the search quality        *)
(* metrics (DCG, DCGlz), the binary heap, the exact filter of Spirin et    *)
(* al., the Cutoff, Top-k and Epsilon pruners, and the pruner/filter       *)
(* composition, as one state machine that assesses one list.               *)
(*                                                                         *)
(* Arithmetic.  The program computes in floating point; the model computes *)
(* in exact arithmetic.  Relevances are small naturals; a score is an      *)
(* integer number of 1/DiscountScale units; the rationals of the Epsilon   *)
(* pruner are [num, den] records compared by cross-multiplication (den = 0 *)
(* stands for the result of a floating-point division by zero).            *)
(* C arrays are 0-based: cell i of a vector v is v[i + 1] when v is a      *)
(* sequence, and v[i] when v is a function over 0..size-1.                 *)
(***************************************************************************)
EXTENDS Integers, Sequences, FiniteSets, Bags, TLC

\* Longest relevance list, largest relevance value and largest k explored.
MaxN == 4
MaxRel == 3
MaxK == 3

\* The values of epsilon explored (0 < epsilon < 1), as fractions.
Epsilons == { [num |-> 1, den |-> 2], [num |-> 1, den |-> 4] }

\* One score unit is 1/DiscountScale: 840 = lcm(1..8) makes 1/p exact.
DiscountScale == 8 * 105

Max(a, b) == IF a < b THEN b ELSE a
Min(a, b) == IF b < a THEN b ELSE a

RECURSIVE Pow(_, _)
Pow(b, e) == IF e = 0 THEN 1 ELSE b * Pow(b, e - 1)

\* Reverse as a bug would have it: the vector left in the order it was built.
Reverse_Identity(s) == s

RECURSIVE Reverse(_)
Reverse(s) == IF s = <<>> THEN <<>> ELSE Append(Reverse(Tail(s)), Head(s))

(***************************************************************************)
(* Search quality metrics                                                  *)
(***************************************************************************)
Metrics == {"dcg", "dcglz"}

\* 1/log2(p+1) for p = 1..8 in score units, rounded to the nearest unit.
DcgDiscountTable == <<840, 530, 420, 362, 325, 299, 280, 265>>

\* dcg_metric::compute_discounts / dcglz_metric::compute_discounts
compute_discounts(metric, n) ==
    [i \in 0..n |-> IF i = 0 THEN 0
                    ELSE IF metric = "dcg" THEN DcgDiscountTable[i]
                    ELSE DiscountScale \div i]

RECURSIVE PrefixSum(_, _)
PrefixSum(discounts, i) ==
    IF i = 0 THEN 0 ELSE PrefixSum(discounts, i - 1) + discounts[i]

\* compute_discount_sums: discount_sums[i] = discount_sums[i-1] + discounts[i]
compute_discount_sums(n, discounts) ==
    [i \in 0..n |-> PrefixSum(discounts, i)]

\* The metric object: constructor dcg_metric(max_position) / dcglz_metric(max_position).
ScoreFun(metric, max_position) ==
    LET d == compute_discounts(metric, max_position)
    IN  [metric |-> metric,
         discounts |-> d,
         discount_sums |-> compute_discount_sums(max_position, d),
         max_position |-> max_position]

\* gain_factor: 2^r - 1 (DCG), r (DCGlz)
gain_factor(sf, relevance) ==
    IF sf.metric = "dcg" THEN Pow(2, relevance) - 1 ELSE relevance

discount_factor(sf, position) == sf.discounts[position]

\* discount_factor_sum as a bug would have it: discount_sums[left_included]
\* subtracted, which leaves the left position out of the sum.
discount_factor_sum_ExclLeft(sf, left_included, right_included) ==
    sf.discount_sums[right_included] - sf.discount_sums[left_included]

discount_factor_sum(sf, left_included, right_included) ==
    sf.discount_sums[right_included] - sf.discount_sums[left_included - 1]

\* The entries of discount_sums a call of discount_factor_sum reads.
SumReads(left_included, right_included) ==
    {right_included, left_included - 1}

\* operator()(relevance, position)
Score(sf, relevance, position) ==
    gain_factor(sf, relevance) * discount_factor(sf, position)

(***************************************************************************)
(* score_solution: the score of a list of indices, positions 1-based       *)
(***************************************************************************)
RECURSIVE ScoreUpTo(_, _, _, _)
ScoreUpTo(sf, rel_list, indices, i) ==
    IF i = 0 THEN 0
    ELSE ScoreUpTo(sf, rel_list, indices, i - 1)
         + Score(sf, rel_list[indices[i] + 1], i)

score_solution(sf, rel_list, indices) ==
    ScoreUpTo(sf, rel_list, indices, Len(indices))

(***************************************************************************)
(* check_solution: the validator of a solution                             *)
(*                                                                         *)
(* a + 1.0e-12 < b and a - 1.0e-12 > b are a < b and a > b here: the       *)
(* scores compared differ by whole multiples of 1/(DiscountScale * 4),     *)
(* which is more than 1.0e-12, or not at all.  (1 - epsilon) * s and       *)
(* (1 + epsilon) * s are compared after multiplying both sides by the      *)
(* denominator of epsilon.  optimal_score is NoScore for nullptr.          *)
(***************************************************************************)
\* const score_type *optimal_score: nullptr, or a reference to a score.
NoScore == [given |-> FALSE, score |-> 0]
ScoreRef(score) == [given |-> TRUE, score |-> score]

check_solution(sf, rel_list, solution_score, solution_indices, optimal_score, eps, epsilon_below, epsilon_above) ==
    LET real_score == score_solution(sf, rel_list, solution_indices)
        below(a, b) == eps.den * a < (eps.den - eps.num) * b
        above(a, b) == eps.den * a > (eps.den + eps.num) * b
    IN  IF epsilon_below /\ below(solution_score, real_score)
        THEN "the solution score is less than (1-eps) times the real score"
        ELSE IF ~epsilon_below /\ solution_score < real_score
        THEN "the solution score is less than the real score"
        ELSE IF epsilon_above /\ above(solution_score, real_score)
        THEN "the solution score is greater than (1+eps) times the real score"
        ELSE IF ~epsilon_above /\ solution_score > real_score
        THEN "the solution score is greater than the real score"
        ELSE IF ~optimal_score.given THEN "passed"
        ELSE IF epsilon_below /\ below(real_score, optimal_score.score)
        THEN "the real score is less than (1-eps) times the optimal one"
        ELSE IF ~epsilon_below /\ real_score < optimal_score.score
        THEN "the real score is less than the optimal one"
        ELSE IF epsilon_above /\ above(real_score, optimal_score.score)
        THEN "the real score is greater than (1+eps) times the optimal one"
        ELSE IF ~epsilon_above /\ real_score > optimal_score.score
        THEN "the real score is greater than the optimal one"
        ELSE "passed"

(***************************************************************************)
(* FilterSpirin::filter_impl                                               *)
(***************************************************************************)
\* A cell of M that was allocated and not written yet.
Uninit == 0 - 1

MRead(M, off) == IF off \in DOMAIN M THEN M[off] ELSE Uninit

\* The cell count of M: ((k - 1) * (k - 1 + 1) / 2) + k * (n - (k - 1))
MSize(n, k) == (((k - 1) * (k - 1 + 1)) \div 2) + k * (n - (k - 1))

\* FillRow as a bug would have it: column 0 always takes the current row,
\* without the max with the cell above (the row cannot be skipped).
FillRow_NoSkip(M, gains, discounts, k, row, prev_row_shift, curr_row_shift) ==
    LET width == IF row < k THEN row + 1 ELSE k
        cell(col) ==
            IF col = 0
            THEN gains[row] * discounts[0]
            ELSE IF row < k /\ col = row
            THEN MRead(M, prev_row_shift + row - 1) + gains[row] * discounts[row]
            ELSE Max(MRead(M, prev_row_shift + col),
                     MRead(M, prev_row_shift + col - 1) + gains[row] * discounts[col])
    IN  [o \in DOMAIN M |->
            IF o >= curr_row_shift /\ o < curr_row_shift + width
            THEN cell(o - curr_row_shift)
            ELSE M[o]]

\* FillRow as a bug would have it: the same slip in the rectangular block only.
FillRow_RectNoSkip(M, gains, discounts, k, row, prev_row_shift, curr_row_shift) ==
    LET width == IF row < k THEN row + 1 ELSE k
        cell(col) ==
            IF col = 0
            THEN IF row < k
                 THEN Max(MRead(M, prev_row_shift + 0), gains[row] * discounts[0])
                 ELSE gains[row] * discounts[0]
            ELSE IF row < k /\ col = row
            THEN MRead(M, prev_row_shift + row - 1) + gains[row] * discounts[row]
            ELSE Max(MRead(M, prev_row_shift + col),
                     MRead(M, prev_row_shift + col - 1) + gains[row] * discounts[col])
    IN  [o \in DOMAIN M |->
            IF o >= curr_row_shift /\ o < curr_row_shift + width
            THEN cell(o - curr_row_shift)
            ELSE M[o]]

\* One row of the table, written from the previous row: the triangular block
\* (row < k, the last cell is on the diagonal) and the rectangular block.
FillRow(M, gains, discounts, k, row, prev_row_shift, curr_row_shift) ==
    LET width == IF row < k THEN row + 1 ELSE k
        cell(col) ==
            IF col = 0
            THEN Max(MRead(M, prev_row_shift + 0), gains[row] * discounts[0])
            ELSE IF row < k /\ col = row
            THEN MRead(M, prev_row_shift + row - 1) + gains[row] * discounts[row]
            ELSE Max(MRead(M, prev_row_shift + col),
                     MRead(M, prev_row_shift + col - 1) + gains[row] * discounts[col])
    IN  [o \in DOMAIN M |->
            IF o >= curr_row_shift /\ o < curr_row_shift + width
            THEN cell(o - curr_row_shift)
            ELSE M[o]]

\* The two filling loops: rows 1..k-1, then rows k..n-1.  The result carries
\* curr_row_shift, the shift of the last row.
RECURSIVE FillTable(_, _, _, _, _, _, _)
FillTable(M, gains, discounts, n, k, row, prev_row_shift) ==
    IF row >= n THEN [M |-> M, curr_row_shift |-> prev_row_shift]
    ELSE LET curr_row_shift == prev_row_shift + (IF row < k THEN row ELSE k)
         IN  FillTable(FillRow(M, gains, discounts, k, row, prev_row_shift, curr_row_shift),
                       gains, discounts, n, k, row + 1, curr_row_shift)

\* BestColumn as a bug would have it: >= keeps the last of the tied columns.
RECURSIVE BestColumn_LastMax(_, _, _, _, _)
BestColumn_LastMax(M, curr_row_shift, k, col, best) ==
    IF col >= k THEN best
    ELSE IF MRead(M, curr_row_shift + col) >= best.score
         THEN BestColumn_LastMax(M, curr_row_shift, k, col + 1,
                         [score |-> MRead(M, curr_row_shift + col), best_column |-> col])
         ELSE BestColumn_LastMax(M, curr_row_shift, k, col + 1, best)

\* The scan of the last row: strict >, columns in increasing order.
RECURSIVE BestColumn(_, _, _, _, _)
BestColumn(M, curr_row_shift, k, col, best) ==
    IF col >= k THEN best
    ELSE IF MRead(M, curr_row_shift + col) > best.score
         THEN BestColumn(M, curr_row_shift, k, col + 1,
                         [score |-> MRead(M, curr_row_shift + col), best_column |-> col])
         ELSE BestColumn(M, curr_row_shift, k, col + 1, best)

\* TraceBack as a bug would have it: >= takes a row that improved nothing.
RECURSIVE TraceBack_NonStrict(_, _, _, _, _, _)
TraceBack_NonStrict(M, k, row, curr_row_shift, best_column, indices) ==
    IF row <= 0
    THEN [curr_row_shift |-> curr_row_shift, best_column |-> best_column,
          indices |-> indices]
    ELSE LET prev_row_shift == curr_row_shift - (IF row < k THEN row ELSE k)
         IN  IF MRead(M, curr_row_shift + best_column) >= MRead(M, prev_row_shift + best_column)
             THEN IF best_column = 0
                  THEN [curr_row_shift |-> curr_row_shift, best_column |-> 0 - 1,
                        indices |-> Append(indices, row)]
                  ELSE TraceBack_NonStrict(M, k, row - 1, prev_row_shift,
                                           best_column - 1, Append(indices, row))
             ELSE TraceBack_NonStrict(M, k, row - 1, prev_row_shift, best_column,
                                      indices)

\* The trace-back loop, for (row = n - 1; row > 0; --row).  best_column = -1
\* stands for static_cast<index_type>(-1), the value after the break.
RECURSIVE TraceBack(_, _, _, _, _, _)
TraceBack(M, k, row, curr_row_shift, best_column, indices) ==
    IF row <= 0
    THEN [curr_row_shift |-> curr_row_shift, best_column |-> best_column,
          indices |-> indices]
    ELSE LET prev_row_shift == curr_row_shift - (IF row < k THEN row ELSE k)
         IN  IF MRead(M, curr_row_shift + best_column) > MRead(M, prev_row_shift + best_column)
             THEN IF best_column = 0
                  THEN [curr_row_shift |-> curr_row_shift, best_column |-> 0 - 1,
                        indices |-> Append(indices, row)]
                  ELSE TraceBack(M, k, row - 1, prev_row_shift, best_column - 1,
                                 Append(indices, row))
             ELSE TraceBack(M, k, row - 1, prev_row_shift, best_column, indices)

\* FilterSolution {score = 0, indices}
EmptyFilterSolution == [score |-> 0, indices |-> <<>>]

\* FilterSpirin as a bug would have it: the early return tests n only.
FilterSpirin_NoKCheck(sf, this_k, rel_list, n) ==
    IF n = 0 THEN EmptyFilterSolution
    ELSE
    LET k == IF this_k > n THEN n ELSE this_k
        gains == [i \in 0..(n - 1) |-> gain_factor(sf, rel_list[i + 1])]
        discounts == [i \in 0..(k - 1) |-> discount_factor(sf, i + 1)]
        M0 == [o \in 0..(MSize(n, k) - 1) |->
                  IF o = 0 THEN gains[0] * discounts[0] ELSE Uninit]
        filled == FillTable(M0, gains, discounts, n, k, 1, 0)
        best == BestColumn(filled.M, filled.curr_row_shift, k, 0,
                           [score |-> 0, best_column |-> 0])
        back == TraceBack(filled.M, k, n - 1, filled.curr_row_shift,
                          best.best_column, <<>>)
        pushed == IF back.curr_row_shift = 0
                  THEN Append(back.indices, 0) ELSE back.indices
    IN  [score |-> best.score, indices |-> Reverse(pushed)]

\* FilterSpirin as a bug would have it: row 0 is never pushed.
FilterSpirin_NoRowZero(sf, this_k, rel_list, n) ==
    IF n = 0 \/ this_k = 0 THEN EmptyFilterSolution
    ELSE
    LET k == IF this_k > n THEN n ELSE this_k
        gains == [i \in 0..(n - 1) |-> gain_factor(sf, rel_list[i + 1])]
        discounts == [i \in 0..(k - 1) |-> discount_factor(sf, i + 1)]
        M0 == [o \in 0..(MSize(n, k) - 1) |->
                  IF o = 0 THEN gains[0] * discounts[0] ELSE Uninit]
        filled == FillTable(M0, gains, discounts, n, k, 1, 0)
        best == BestColumn(filled.M, filled.curr_row_shift, k, 0,
                           [score |-> 0, best_column |-> 0])
        back == TraceBack(filled.M, k, n - 1, filled.curr_row_shift,
                          best.best_column, <<>>)
        pushed == back.indices
    IN  [score |-> best.score, indices |-> Reverse(pushed)]

FilterSpirin(sf, this_k, rel_list, n) ==
    IF n = 0 \/ this_k = 0 THEN EmptyFilterSolution
    ELSE
    LET k == IF this_k > n THEN n ELSE this_k
        gains == [i \in 0..(n - 1) |-> gain_factor(sf, rel_list[i + 1])]
        discounts == [i \in 0..(k - 1) |-> discount_factor(sf, i + 1)]
        M0 == [o \in 0..(MSize(n, k) - 1) |->
                  IF o = 0 THEN gains[0] * discounts[0] ELSE Uninit]
        filled == FillTable(M0, gains, discounts, n, k, 1, 0)
        best == BestColumn(filled.M, filled.curr_row_shift, k, 0,
                           [score |-> 0, best_column |-> 0])
        back == TraceBack(filled.M, k, n - 1, filled.curr_row_shift,
                          best.best_column, <<>>)
        pushed == IF back.curr_row_shift = 0
                  THEN Append(back.indices, 0) ELSE back.indices
    IN  [score |-> best.score, indices |-> Reverse(pushed)]

\* What a call of filter_impl reads: the cells of rel_list (0-based) and the
\* positions of the discount table, both in the loops that fill gains and
\* discounts, after the early return.
FilterReads(this_k, n) ==
    IF n = 0 \/ this_k = 0 THEN [rel_list |-> {}, discounts |-> {}]
    ELSE LET k == IF this_k > n THEN n ELSE this_k
         IN  [rel_list |-> 0..(n - 1), discounts |-> 1..k]

\* One read of the flat array M: the offset the code computes, the cell
\* [row, col] of the table the code means by it, and whether the cell at that
\* offset has been written by the time of the read.
MReadAt(M, off, row, col) ==
    [off |-> off, row |-> row, col |-> col, written |-> MRead(M, off) # Uninit]

\* The reads of M made while one row is filled (all of them in the previous
\* row): lines 76-81 in the triangular block, lines 96-100 in the rectangular.
FillRowReads(M, k, row, prev_row_shift) ==
    LET last == IF row < k THEN row - 1 ELSE k - 1
    IN  {MReadAt(M, prev_row_shift + 0, row - 1, 0)}
        \cup {MReadAt(M, prev_row_shift + col, row - 1, col) : col \in 1..last}
        \cup {MReadAt(M, prev_row_shift + col - 1, row - 1, col - 1) : col \in 1..last}
        \cup (IF row < k
              THEN {MReadAt(M, prev_row_shift + row - 1, row - 1, row - 1)}
              ELSE {})

\* The reads of the two filling loops, each taken against M as it is when the
\* row is filled.
RECURSIVE FillTableReads(_, _, _, _, _, _, _)
FillTableReads(M, gains, discounts, n, k, row, prev_row_shift) ==
    IF row >= n THEN {}
    ELSE LET curr_row_shift == prev_row_shift + (IF row < k THEN row ELSE k)
         IN  FillRowReads(M, k, row, prev_row_shift)
             \cup FillTableReads(FillRow(M, gains, discounts, k, row, prev_row_shift, curr_row_shift),
                                 gains, discounts, n, k, row + 1, curr_row_shift)

\* The reads of the trace-back loop (line 128): M[curr_row_shift + best_column]
\* stands for cell [row, best_column], M[prev_row_shift + best_column] for
\* cell [row - 1, best_column].
RECURSIVE TraceBackReads(_, _, _, _, _)
TraceBackReads(M, k, row, curr_row_shift, best_column) ==
    IF row <= 0 THEN {}
    ELSE LET prev_row_shift == curr_row_shift - (IF row < k THEN row ELSE k)
             here == {MReadAt(M, curr_row_shift + best_column, row, best_column),
                      MReadAt(M, prev_row_shift + best_column, row - 1, best_column)}
         IN  IF MRead(M, curr_row_shift + best_column) > MRead(M, prev_row_shift + best_column)
             THEN IF best_column = 0
                  THEN here
                  ELSE here \cup TraceBackReads(M, k, row - 1, prev_row_shift, best_column - 1)
             ELSE here \cup TraceBackReads(M, k, row - 1, prev_row_shift, best_column)

\* Every read of M a call of filter_impl makes while filling and tracing back.
FilterMReads(sf, this_k, rel_list, n) ==
    IF n = 0 \/ this_k = 0 THEN {}
    ELSE
    LET k == IF this_k > n THEN n ELSE this_k
        gains == [i \in 0..(n - 1) |-> gain_factor(sf, rel_list[i + 1])]
        discounts == [i \in 0..(k - 1) |-> discount_factor(sf, i + 1)]
        M0 == [o \in 0..(MSize(n, k) - 1) |->
                  IF o = 0 THEN gains[0] * discounts[0] ELSE Uninit]
        filled == FillTable(M0, gains, discounts, n, k, 1, 0)
        best == BestColumn(filled.M, filled.curr_row_shift, k, 0,
                           [score |-> 0, best_column |-> 0])
    IN  FillTableReads(M0, gains, discounts, n, k, 1, 0)
        \cup TraceBackReads(filled.M, k, n - 1, filled.curr_row_shift, best.best_column)

\* The shift of a row within the flat array, accumulated as the filling
\* loops do: curr_row_shift = prev_row_shift + row in the triangular block,
\* prev_row_shift + k in the rectangular one.
RECURSIVE RowShift(_, _)
RowShift(row, k) ==
    IF row = 0 THEN 0
    ELSE RowShift(row - 1, k) + (IF row < k THEN row ELSE k)

\* The table as it stands when the filling loops have ended.
FilledTable(sf, this_k, rel_list, n) ==
    LET k == IF this_k > n THEN n ELSE this_k
        gains == [i \in 0..(n - 1) |-> gain_factor(sf, rel_list[i + 1])]
        discounts == [i \in 0..(k - 1) |-> discount_factor(sf, i + 1)]
        M0 == [o \in 0..(MSize(n, k) - 1) |->
                  IF o = 0 THEN gains[0] * discounts[0] ELSE Uninit]
    IN  FillTable(M0, gains, discounts, n, k, 1, 0).M

(***************************************************************************)
(* The allocation of M in the integer widths of the code.  A value is a    *)
(* sequence of eight digits in base 256, least significant first (the 64   *)
(* bits of std::size_t); index_type is its low four digits, int its low    *)
(* four digits read in two's complement.                                   *)
(***************************************************************************)
RECURSIVE Wide(_, _)
Wide(x, digits) ==
    IF digits = 0 THEN <<>> ELSE <<x % 256>> \o Wide(x \div 256, digits - 1)

\* A value of at most 31 bits, widened.
W(x) == Wide(x, 8)

RECURSIVE AddFrom(_, _, _, _)
AddFrom(a, b, i, carry) ==
    IF i > Len(a) THEN <<>>
    ELSE LET s == a[i] + b[i] + carry
         IN  <<s % 256>> \o AddFrom(a, b, i + 1, s \div 256)

WAdd(a, b) == AddFrom(a, b, 1, 0)

\* a - b, modulo 2^64.
RECURSIVE SubFrom(_, _, _, _)
SubFrom(a, b, i, borrow) ==
    IF i > Len(a) THEN <<>>
    ELSE LET d == a[i] - b[i] - borrow
         IN  IF d < 0 THEN <<d + 256>> \o SubFrom(a, b, i + 1, 1)
             ELSE <<d>> \o SubFrom(a, b, i + 1, 0)

WSub(a, b) == SubFrom(a, b, 1, 0)

RECURSIVE MulDigitFrom(_, _, _, _)
MulDigitFrom(a, d, i, carry) ==
    IF i > Len(a) THEN <<>>
    ELSE LET p == a[i] * d + carry
         IN  <<p % 256>> \o MulDigitFrom(a, d, i + 1, p \div 256)

ShiftDigits(a, by) == [i \in 1..Len(a) |-> IF i > by THEN a[i - by] ELSE 0]

RECURSIVE MulFrom(_, _, _)
MulFrom(a, b, j) ==
    IF j > Len(b) THEN [i \in 1..Len(a) |-> 0]
    ELSE WAdd(ShiftDigits(MulDigitFrom(a, b[j], 1, 0), j - 1), MulFrom(a, b, j + 1))

WMul(a, b) == MulFrom(a, b, 1)

WHalf(a) ==
    [i \in 1..Len(a) |->
        (a[i] \div 2) + (IF i < Len(a) /\ a[i + 1] % 2 = 1 THEN 128 ELSE 0)]

WLess(a, b) ==
    \E i \in 1..Len(a) : a[i] < b[i] /\ \A j \in (i + 1)..Len(a) : a[j] = b[j]

\* Conversion to a 32-bit unsigned value: the low four digits.
ToUint32(a) == [i \in 1..Len(a) |-> IF i <= 4 THEN a[i] ELSE 0]

\* INT_MAX, UINT32_MAX and 2^32.
IntMax == <<255, 255, 255, 127, 0, 0, 0, 0>>
Uint32Max == <<255, 255, 255, 255, 0, 0, 0, 0>>
TwoTo32 == <<0, 0, 0, 0, 1, 0, 0, 0>>

\* const k_type k = (this->k > n) ? n : this->k
ClampK(this_k, n) == IF WLess(n, W(this_k)) THEN n ELSE W(this_k)

\* (k - 1) * (k - 1 + 1) / 2, in int: the product as the mathematics has it,
\* and the value an int holds when the product wraps (two's complement), halved
\* with the truncation toward zero of a negative int and converted to
\* unsigned for the sum.
FirstTermProduct(k) == WMul(WSub(k, W(1)), WAdd(WSub(k, W(1)), W(1)))

FirstTermOverflows(k) == WLess(IntMax, FirstTermProduct(k))

FirstTermWrapped(k) ==
    IF FirstTermOverflows(k)
    THEN WSub(TwoTo32, WHalf(WSub(TwoTo32, FirstTermProduct(k))))
    ELSE WHalf(FirstTermProduct(k))

\* k * (n - (k - 1)), in 32-bit unsigned arithmetic.
SecondTerm(n, k) == ToUint32(WMul(k, ToUint32(WSub(n, WSub(k, W(1))))))

\* The operand of new score_type[...] at line 53: what the build can produce.
\* The signed overflow of the first term is undefined: the product wraps, or
\* the program traps.
MCellCount(n, this_k) ==
    LET k == ClampK(this_k, n)
        wrapped == ToUint32(WAdd(FirstTermWrapped(k), SecondTerm(n, k)))
    IN  IF FirstTermOverflows(k)
        THEN {[at |-> "allocated", count |-> wrapped], [at |-> "trapped", count |-> W(0)]}
        ELSE {[at |-> "allocated", count |-> wrapped]}

(***************************************************************************)
(* heapq: binary min-heap over a vector, with a comparator                 *)
(***************************************************************************)
\* The comparators in use: std::less on relevances, and
\* relpos_comparator_relevance on (relevance, position) pairs.
Less(comp, l, r) ==
    IF comp = "relpos" THEN l.relevance < r.relevance ELSE l < r

parent(pos) == (pos - 1) \div 2
left(pos) == 2 * pos + 1

Swap(heap, a, b) ==
    [heap EXCEPT ![a + 1] = heap[b + 1], ![b + 1] = heap[a + 1]]

RECURSIVE percolate_down(_, _, _)
percolate_down(heap, pos, comp) ==
    LET size == Len(heap)
        l == left(pos)
        r == l + 1
    IN  IF l >= size THEN heap
        ELSE LET s1 == IF Less(comp, heap[l + 1], heap[pos + 1]) THEN l ELSE pos
                 smallest == IF r < size /\ Less(comp, heap[r + 1], heap[s1 + 1])
                             THEN r ELSE s1
             IN  IF smallest = pos THEN heap
                 ELSE percolate_down(Swap(heap, pos, smallest), smallest, comp)

RECURSIVE percolate_up(_, _, _)
percolate_up(heap, pos, comp) ==
    IF pos > 0 /\ Less(comp, heap[pos + 1], heap[parent(pos) + 1])
    THEN percolate_up(Swap(heap, pos, parent(pos)), parent(pos), comp)
    ELSE heap

\* HeapifyFrom as a bug would have it: the loop stops at i > 0 and the root
\* is never sifted down.
RECURSIVE HeapifyFrom_SkipRoot(_, _, _)
HeapifyFrom_SkipRoot(vec, i, comp) ==
    IF i > 0 THEN HeapifyFrom_SkipRoot(percolate_down(vec, i, comp), i - 1, comp)
    ELSE vec

\* for (i = parent(n - 1); i > 0; --i) percolate_down(vec, i)
RECURSIVE HeapifyFrom(_, _, _)
HeapifyFrom(vec, i, comp) ==
    IF i > 0 THEN HeapifyFrom(percolate_down(vec, i, comp), i - 1, comp)
    ELSE percolate_down(vec, 0, comp)

heapify(vec, comp) ==
    IF Len(vec) <= 1 THEN vec ELSE HeapifyFrom(vec, parent(Len(vec) - 1), comp)

push(heap, element, comp) ==
    percolate_up(Append(heap, element), Len(heap), comp)

\* heap[0] = heap.back(); heap.pop_back(); percolate_down(heap, 0)
pop(heap, comp) ==
    LET moved == [heap EXCEPT ![1] = heap[Len(heap)]]
        shrunk == SubSeq(moved, 1, Len(heap) - 1)
    IN  percolate_down(shrunk, 0, comp)

\* replace as a bug would have it: the root overwritten and not sifted down.
replace_NoSift(heap, element, comp) == [heap EXCEPT ![1] = element]

\* heap[0] = element; percolate_down(heap, 0)
replace(heap, element, comp) ==
    percolate_down([heap EXCEPT ![1] = element], 0, comp)

(***************************************************************************)
(* PrunerCutoff                                                            *)
(***************************************************************************)
\* CutoffScan as a bug would have it: > instead of >= at the threshold.
RECURSIVE CutoffScan_Strict(_, _, _, _)
CutoffScan_Strict(rel, minmax_element, i, indices) ==
    IF i >= Len(rel) THEN indices
    ELSE IF 2 * rel[i + 1] > minmax_element.min + minmax_element.max
         THEN CutoffScan_Strict(rel, minmax_element, i + 1, Append(indices, i))
         ELSE CutoffScan_Strict(rel, minmax_element, i + 1, indices)

\* Keeps rel_list[i] >= 0.5 * min + 0.5 * max, compared here as
\* 2 * rel_list[i] >= min + max.
RECURSIVE CutoffScan(_, _, _, _)
CutoffScan(rel, minmax_element, i, indices) ==
    IF i >= Len(rel) THEN indices
    ELSE IF 2 * rel[i + 1] >= minmax_element.min + minmax_element.max
         THEN CutoffScan(rel, minmax_element, i + 1, Append(indices, i))
         ELSE CutoffScan(rel, minmax_element, i + 1, indices)

PrunerCutoff(rel, minmax_element) == CutoffScan(rel, minmax_element, 0, <<>>)

(***************************************************************************)
(* PrunerTopk (straightforward)                                            *)
(***************************************************************************)
\* Identity as a bug would have it: the loop stops one index early.
Identity_Truncated(len) == [i \in 1..(len - 1) |-> i - 1]

\* solution.indices[i] = i for every i
Identity(len) == [i \in 1..len |-> i - 1]

\* TopkFill as a bug would have it: the heap of the first k elements, the
\* rest of the list never offered to it.
TopkFill_NoReplace(rel, i, heap) == heap

\* for (i = k; i < n; ++i): skip rel_list[i] < heap[0], else replace
RECURSIVE TopkFill(_, _, _)
TopkFill(rel, i, heap) ==
    IF i >= Len(rel) THEN heap
    ELSE IF rel[i + 1] < heap[1] THEN TopkFill(rel, i + 1, heap)
         ELSE TopkFill(rel, i + 1, replace(heap, rel[i + 1], "less"))

\* The second pass: emit i unless rel_list[i] < heap[0]; pop on equality and
\* stop when the heap is empty.
RECURSIVE TopkEmit(_, _, _, _)
TopkEmit(rel, i, heap, indices) ==
    IF i >= Len(rel) THEN indices
    ELSE IF rel[i + 1] < heap[1] THEN TopkEmit(rel, i + 1, heap, indices)
         ELSE IF rel[i + 1] = heap[1]
              THEN LET popped == pop(heap, "less")
                   IN  IF popped = <<>> THEN Append(indices, i)
                       ELSE TopkEmit(rel, i + 1, popped, Append(indices, i))
              ELSE TopkEmit(rel, i + 1, heap, Append(indices, i))

PrunerTopk(rel, this_k) ==
    IF Len(rel) <= this_k THEN Identity(Len(rel))
    ELSE LET heap0 == heapify(SubSeq(rel, 1, this_k), "less")
             heap == TopkFill(rel, this_k, heap0)
         IN  TopkEmit(rel, 0, heap, <<>>)

(***************************************************************************)
(* PrunerTopkOptimized (positional)                                        *)
(***************************************************************************)
relpos_pair(relevance, position) ==
    [relevance |-> relevance, position |-> position]

\* i = n; while (i > n - k) { --i; heap.emplace_back(rel_list[i], i); }
TopkOptSeed(rel, this_k) ==
    [j \in 1..this_k |-> relpos_pair(rel[Len(rel) - j + 1], Len(rel) - j)]

\* TopkOptScan as a bug would have it: the seed of the last k elements, the
\* rest of the list never offered to it.
TopkOptScan_NoScan(rel, i, heap) == heap

\* while (i > 0) { --i; skip rel_list[i] < heap[0].relevance, else replace }
RECURSIVE TopkOptScan(_, _, _)
TopkOptScan(rel, i, heap) ==
    IF i <= 0 THEN heap
    ELSE IF rel[i] < heap[1].relevance THEN TopkOptScan(rel, i - 1, heap)
         ELSE TopkOptScan(rel, i - 1,
                          replace(heap, relpos_pair(rel[i], i - 1), "relpos"))

\* SortByPosition as a bug would have it: the pairs left in heap order.
SortByPosition_None(pairs) == pairs

\* std::sort(heap.begin(), heap.end(), relpos_comparator_position)
RECURSIVE SortByPosition(_)
SortByPosition(pairs) ==
    IF pairs = <<>> THEN <<>>
    ELSE LET m == CHOOSE a \in 1..Len(pairs) :
                      \A b \in 1..Len(pairs) :
                          ~(pairs[b].position < pairs[a].position)
             rest == [j \in 1..(Len(pairs) - 1) |->
                         IF j < m THEN pairs[j] ELSE pairs[j + 1]]
         IN  <<pairs[m]>> \o SortByPosition(rest)

PrunerTopkOptimized(rel, this_k) ==
    IF Len(rel) <= this_k THEN Identity(Len(rel))
    ELSE LET heap0 == heapify(TopkOptSeed(rel, this_k), "relpos")
             heap == TopkOptScan(rel, Len(rel) - this_k, heap0)
             sorted == SortByPosition(heap)
         IN  [j \in 1..Len(sorted) |-> sorted[j].position]

(***************************************************************************)
(* PrunerEpsPruning                                                        *)
(*                                                                         *)
(* Gains are compared instead of relevances: gain_factor is increasing and *)
(* gain_factor_inverse is its inverse, so rel_list[i] >= min_threshold is  *)
(* gain_factor(rel_list[i]) >= min_gain, and an interval boundary          *)
(* gain_factor_inverse(v) is kept as the gain v it stands for.             *)
(***************************************************************************)
Rat(num, den) == [num |-> num, den |-> den]

\* a < b, a <= b for an integer gain a and a rational b = num/den, den >= 0
GainLess(a, b) == a * b.den < b.num
GainLessEq(a, b) == a * b.den <= b.num

\* (epsilon * max_gain * discount_factor(1)) / (delta * discount_factor_sum(2, k)):
\* the divisor is 0 for k = 1, and the quotient then inf or NaN (den = 0).
EpsBound(sf, this_k, eps, max_gain) ==
    Rat(eps.num * max_gain * discount_factor(sf, 1),
        (eps.den - eps.num) * discount_factor_sum(sf, 2, this_k))

\* std::max(gain_factor(min), bound): the first unless it is less than the second
EpsMinGain(sf, this_k, eps, minmax_element) ==
    LET a == gain_factor(sf, minmax_element.min)
        b == EpsBound(sf, this_k, eps, gain_factor(sf, minmax_element.max))
    IN  IF GainLess(a, b) THEN b ELSE Rat(a, 1)

\* ceil(log2(ratio) / log2(delta)) for a finite ratio > 0, delta = dn/ed:
\* the least j with delta^j <= ratio, negative when ratio > 1.
RECURSIVE CeilLogUp(_, _, _, _)
CeilLogUp(ratio, dn, ed, j) ==
    IF Pow(dn, j) * ratio.den <= ratio.num * Pow(ed, j) THEN j
    ELSE CeilLogUp(ratio, dn, ed, j + 1)

RECURSIVE CeilLogDown(_, _, _, _)
CeilLogDown(ratio, dn, ed, m) ==
    IF Pow(ed, m + 1) * ratio.den <= ratio.num * Pow(dn, m + 1)
    THEN CeilLogDown(ratio, dn, ed, m + 1)
    ELSE 0 - m

CeilLog(ratio, dn, ed) ==
    IF ratio.num <= ratio.den THEN CeilLogUp(ratio, dn, ed, 0)
    ELSE CeilLogDown(ratio, dn, ed, 0)

\* interval_boundaries.size(): 1 + static_cast<size_t>(1 + ceil(...)).  The
\* conversion is undefined for NaN (max_gain = 0), for -inf (min_gain = inf)
\* and for a negative value: ub is then TRUE and size is what a saturating
\* conversion gives, 1 + 0.
EpsIntervals(min_gain, max_gain, eps) ==
    IF max_gain = 0 \/ min_gain.den = 0
    THEN [ub |-> TRUE, size |-> 1]
    ELSE LET c == 1 + CeilLog(Rat(min_gain.num, min_gain.den * max_gain),
                              eps.den - eps.num, eps.den)
         IN  IF c < 0 THEN [ub |-> TRUE, size |-> 1]
             ELSE [ub |-> FALSE, size |-> 1 + c]

\* EpsBoundaries as a bug would have it: every boundary one interval too low,
\* so that the last one is max_gain * delta instead of the maximum.
EpsBoundaries_Shifted(size, max_gain, eps) ==
    [b \in 0..(size - 1) |->
        Rat(max_gain * Pow(eps.den - eps.num, size - b),
            Pow(eps.den, size - b))]

\* interval_boundaries[b], as a gain: max_gain * delta^(size - 1 - b)
EpsBoundaries(size, max_gain, eps) ==
    [b \in 0..(size - 1) |->
        Rat(max_gain * Pow(eps.den - eps.num, size - 1 - b),
            Pow(eps.den, size - 1 - b))]

\* First scan, right to left: the last k elements that pass min_threshold.
RECURSIVE EpsFirstScan(_, _, _, _, _, _, _)
EpsFirstScan(sf, rel, this_k, min_gain, i, indices, heap) ==
    IF i <= 0 THEN [i |-> i, indices |-> indices, heap |-> heap]
    ELSE IF ~GainLess(gain_factor(sf, rel[i]), min_gain)
         THEN IF Len(heap) + 1 = this_k
              THEN [i |-> i - 1, indices |-> Append(indices, i - 1),
                    heap |-> Append(heap, rel[i])]
              ELSE EpsFirstScan(sf, rel, this_k, min_gain, i - 1,
                                Append(indices, i - 1), Append(heap, rel[i]))
         ELSE EpsFirstScan(sf, rel, this_k, min_gain, i - 1, indices, heap)

\* while (interval_boundaries[min_interval_id] < heap[0]) ++min_interval_id;
\* the result is outside DOMAIN boundaries when the loop reads past the end.
RECURSIVE EpsAdvance(_, _, _)
EpsAdvance(boundaries, top_gain, min_interval_id) ==
    IF min_interval_id \notin DOMAIN boundaries THEN min_interval_id
    ELSE IF GainLessEq(top_gain, boundaries[min_interval_id])
         THEN min_interval_id
         ELSE EpsAdvance(boundaries, top_gain, min_interval_id + 1)

\* Second scan: skip rel_list[i] <= min_threshold (min_threshold is
\* interval_boundaries[min_interval_id] throughout), else keep i, replace the
\* heap top and move to the interval of the new top; stop at the last one.
RECURSIVE EpsSecondScan(_, _, _, _, _, _, _)
EpsSecondScan(sf, rel, boundaries, i, indices, heap, min_interval_id) ==
    IF i <= 0 THEN [ub |-> FALSE, indices |-> indices]
    ELSE IF GainLessEq(gain_factor(sf, rel[i]), boundaries[min_interval_id])
         THEN EpsSecondScan(sf, rel, boundaries, i - 1, indices, heap,
                            min_interval_id)
         ELSE LET heap2 == replace(heap, rel[i], "less")
                  top_gain == gain_factor(sf, heap2[1])
                  kept == Append(indices, i - 1)
              IN  IF GainLessEq(top_gain, boundaries[min_interval_id])
                  THEN EpsSecondScan(sf, rel, boundaries, i - 1, kept, heap2,
                                     min_interval_id)
                  ELSE LET id2 == EpsAdvance(boundaries, top_gain,
                                             min_interval_id + 1)
                       IN  IF id2 \notin DOMAIN boundaries
                           THEN [ub |-> TRUE, indices |-> kept]
                           ELSE IF id2 = Cardinality(DOMAIN boundaries) - 1
                           THEN [ub |-> FALSE, indices |-> kept]
                           ELSE EpsSecondScan(sf, rel, boundaries, i - 1, kept,
                                              heap2, id2)

\* The result: the kept indices, and ub = TRUE when the call ran into
\* undefined behaviour (the size conversion, heap[0] of an empty heap, a
\* boundary read past the end); indices is then what the call returns if it
\* returns at all.
PrunerEpsPruning(sf, this_k, eps, rel, minmax_element) ==
    LET max_gain == gain_factor(sf, minmax_element.max)
        min_gain == EpsMinGain(sf, this_k, eps, minmax_element)
        intervals == EpsIntervals(min_gain, max_gain, eps)
        boundaries == EpsBoundaries(intervals.size, max_gain, eps)
        first == EpsFirstScan(sf, rel, this_k, min_gain, Len(rel), <<>>, <<>>)
        heap == heapify(first.heap, "less")
    IN  IF heap = <<>>
        THEN [ub |-> TRUE, indices |-> Reverse(first.indices)]
        ELSE LET id == EpsAdvance(boundaries, gain_factor(sf, heap[1]), 0)
             IN  IF id \notin DOMAIN boundaries
                 THEN [ub |-> TRUE, indices |-> Reverse(first.indices)]
                 ELSE LET second == EpsSecondScan(sf, rel, boundaries, first.i,
                                                  first.indices, heap, id)
                      IN  [ub |-> intervals.ub \/ second.ub,
                           indices |-> Reverse(second.indices)]

(***************************************************************************)
(* The state: one list under assessment                                    *)
(***************************************************************************)
VARIABLES
    metric,             \* "dcg" or "dcglz"
    rel_list,           \* the relevance list, attribute-sorted
    k,                  \* maximum number of elements to keep
    pc,                 \* position of the assessment of this list
    optimal,            \* FilterSolution of the composition without pruner
    pruner,             \* the pruner of the composition under test
    epsilon,            \* its epsilon (EpsPruning only)
    pruningSolution,    \* PrunerSolution.indices of the first stage
    new_rel_list,       \* the list materialised for the second stage
    filteringSolution,  \* FilterSolution of the second stage, sub-list indices
    solution,           \* the outcome of the composition: score and indices
    live,               \* the buffers allocated with new[] and not deleted
    heap,               \* a vector handled through heapq
    heap_comp,          \* its comparator: "less" or "relpos"
    heap_pc,            \* "idle", "vec" (before heapify), "heap" or "replaced"
    twin,               \* what pop, then push, leave where replace was called
    contents,           \* the elements the vector is expected to hold (a bag)
    check_args,         \* the arguments of a call of check_solution
    check_result,       \* "idle", "pending", "passed" or the message thrown
    alloc_n,            \* the n of a call of filter_impl, as a 32-bit index_type
    alloc_k,            \* this->k of that call, a 16-bit k_type
    cells,              \* the cell count passed to new[] for M, and how far the call got
    eps_pc,             \* where a call of PrunerEpsPruning stands
    eps_i,              \* its scan position i
    eps_indices,        \* its solution.indices
    eps_heap,           \* its heap of relevances
    interval_boundaries, \* its interval boundaries, as gains
    min_interval_id,    \* its current interval
    min_threshold,      \* its current threshold, as a gain
    driver_pc,          \* where the assessment driver stands
    n_cut_list,         \* its validated list of cuts of n
    k_list,             \* its validated list of values of k
    skip_shorter_lists, \* its option of that name
    lists_left,         \* the input lists not yet read
    test_opt_outcome_list,   \* per slot, the (n_cut, k) of the outcomes accumulated
    num_lists_assessed_list, \* per slot, the count the driver keeps
    assessed,           \* per (n_cut, k), the lists assessed with that combination
    printed             \* the objects of the JSON output

\* The variables of the assessment of a list, and those of a heap.
listVars == <<metric, rel_list, k, pc, optimal, pruner, epsilon, pruningSolution,
              new_rel_list, filteringSolution, solution, live>>
heapVars == <<heap, heap_comp, heap_pc, twin, contents>>

checkVars == <<check_args, check_result>>

allocVars == <<alloc_n, alloc_k, cells>>

\* The variables outside the assessment of a list, heapq and check_solution.
epsVars == <<eps_pc, eps_i, eps_indices, eps_heap, interval_boundaries,
             min_interval_id, min_threshold>>

driverVars == <<driver_pc, n_cut_list, k_list, skip_shorter_lists, lists_left,
                test_opt_outcome_list, num_lists_assessed_list, assessed, printed>>

extraVars == <<allocVars, epsVars, driverVars>>

vars == <<listVars, heapVars, checkVars, extraVars>>

\* No allocation under test.
AllocIdle ==
    /\ alloc_n = <<>>
    /\ alloc_k = 0
    /\ cells = [at |-> "idle", count |-> <<>>]

\* No call of PrunerEpsPruning followed step by step.
EpsIdle ==
    /\ eps_pc = "idle"
    /\ eps_i = 0
    /\ eps_indices = <<>>
    /\ eps_heap = <<>>
    /\ interval_boundaries = <<>>
    /\ min_interval_id = 0
    /\ min_threshold = [num |-> 0, den |-> 1]

\* No run of the assessment driver.
DriverIdle ==
    /\ driver_pc = "idle"
    /\ n_cut_list = <<>>
    /\ k_list = <<>>
    /\ skip_shorter_lists = FALSE
    /\ lists_left = 0
    /\ test_opt_outcome_list = <<>>
    /\ num_lists_assessed_list = <<>>
    /\ assessed = <<>>
    /\ printed = <<>>

ExtraIdle == AllocIdle /\ EpsIdle /\ DriverIdle

\* No call of check_solution.
NoCheckArgs ==
    [optimal_score |-> NoScore, epsilon |-> [num |-> 0, den |-> 1],
     epsilon_below |-> TRUE, epsilon_above |-> TRUE]

CheckIdle ==
    /\ check_args = NoCheckArgs
    /\ check_result = "idle"

\* No heap under test.
HeapIdle ==
    /\ heap = <<>>
    /\ heap_comp = "less"
    /\ heap_pc = "idle"
    /\ twin = <<>>
    /\ contents = EmptyBag

n == Len(rel_list)

\* The metric shared by every filter and pruner: built for the largest k.
score_fun == ScoreFun(metric, MaxK)

RelLists == UNION { [1..len -> 0..MaxRel] : len \in 1..MaxN }

NoEpsilon == [num |-> 0, den |-> 1]

Init ==
    /\ metric \in Metrics
    /\ rel_list \in RelLists
    /\ k \in 1..MaxK
    /\ pc = "start"
    /\ optimal = EmptyFilterSolution
    /\ pruner = "none"
    /\ epsilon = NoEpsilon
    /\ pruningSolution = <<>>
    /\ new_rel_list = <<>>
    /\ filteringSolution = EmptyFilterSolution
    /\ solution = EmptyFilterSolution
    /\ live = {}
    /\ HeapIdle
    /\ CheckIdle
    /\ ExtraIdle

\* minmax_element as the driver computes it before calling the composition.
RECURSIVE MinMaxFrom(_, _, _)
MinMaxFrom(rel, j, mm) ==
    IF j >= Len(rel) THEN mm
    ELSE IF rel[j + 1] < mm.min
         THEN MinMaxFrom(rel, j + 1, [mm EXCEPT !.min = rel[j + 1]])
         ELSE IF rel[j + 1] > mm.max
              THEN MinMaxFrom(rel, j + 1, [mm EXCEPT !.max = rel[j + 1]])
              ELSE MinMaxFrom(rel, j + 1, mm)

MinMax(rel) == MinMaxFrom(rel, 1, [min |-> rel[1], max |-> rel[1]])

\* The buffers filter_impl allocates with new[] and deletes before it returns.
FilterBuffers == {"M", "buffer"}

\* What a call of filter_impl leaves allocated when it ends with
\* std::bad_alloc: nothing when new[] of M throws, M when new[] of buffer
\* throws, both when solution.indices.reserve(n) throws.  The early return
\* allocates nothing.
FilterFailures(this_k, len) ==
    IF len = 0 \/ this_k = 0 THEN {}
    ELSE { {}, {"M"}, {"M", "buffer"} }

\* live after a call of filter_impl that returns: both buffers deleted.
FilterReturns == (live \cup FilterBuffers) \ FilterBuffers

\* The call ends with an exception, leaked left allocated.
Fails(leaked) ==
    /\ pc' = "failed"
    /\ live' = live \cup leaked
    /\ UNCHANGED <<metric, rel_list, k, optimal, pruner, epsilon,
                   pruningSolution, new_rel_list, filteringSolution, solution,
                   heapVars, checkVars, extraVars>>

\* The composition without pruner (OPT): the filter on the whole list.
Opt ==
    /\ pc = "start"
    /\ \/ /\ optimal' = FilterSpirin(score_fun, k, rel_list, n)
          /\ pc' = "opt"
          /\ live' = FilterReturns
          /\ UNCHANGED <<metric, rel_list, k, pruner, epsilon, pruningSolution,
                         new_rel_list, filteringSolution, solution, heapVars, checkVars, extraVars>>
       \/ \E leaked \in FilterFailures(k, n) : Fails(leaked)

\* First stage of PrunerFilterCompositionTest::operator() with a pruner.
FirstStage(name, eps, indices) ==
    /\ pruner' = name
    /\ epsilon' = eps
    /\ pruningSolution' = indices
    /\ pc' = "pruned"
    /\ UNCHANGED <<metric, rel_list, k, optimal, new_rel_list,
                   filteringSolution, solution, live,
                   heapVars, checkVars, extraVars>>

CutoffOpt ==
    /\ pc = "opt"
    /\ FirstStage("cutoff", NoEpsilon, PrunerCutoff(rel_list, MinMax(rel_list)))

TopkOpt ==
    /\ pc = "opt"
    /\ FirstStage("topk", NoEpsilon, PrunerTopk(rel_list, k))

TopkOptimizedOpt ==
    /\ pc = "opt"
    /\ FirstStage("topk_optimized", NoEpsilon, PrunerTopkOptimized(rel_list, k))

\* EpsPruning returns its indices, unless the call ran into undefined
\* behaviour: the call then either returns what it had collected or ends the
\* run (an exception out of the vector constructor, a fault).
EpsFiltering ==
    /\ pc = "opt"
    /\ \E eps \in Epsilons :
         LET res == PrunerEpsPruning(score_fun, k, eps, rel_list, MinMax(rel_list))
         IN  \/ FirstStage("epspruning", eps, res.indices)
             \/ /\ res.ub
                /\ pruner' = "epspruning"
                /\ epsilon' = eps
                /\ pc' = "crashed"
                /\ UNCHANGED <<metric, rel_list, k, optimal, pruningSolution,
                               new_rel_list, filteringSolution, solution, live,
                   heapVars, checkVars, extraVars>>

\* new_rel_list[i] = rel_list[pruningSolution.indices[i]], then the filter on it.
\* new[] of new_rel_list may throw (nothing allocated); the filter may throw,
\* and delete[](new_rel_list) after it is then not reached.  new_rel_list
\* keeps the content of the list after the delete, for the record.
SecondStage ==
    /\ pc = "pruned"
    /\ LET n2 == Len(pruningSolution)
           sub == [i \in 1..n2 |-> rel_list[pruningSolution[i] + 1]]
       IN  \/ /\ new_rel_list' = sub
              /\ filteringSolution' = FilterSpirin(score_fun, k, sub, n2)
              /\ pc' = "filtered"
              /\ live' = (FilterReturns \cup {"new_rel_list"}) \ {"new_rel_list"}
              /\ UNCHANGED <<metric, rel_list, k, optimal, pruner, epsilon,
                             pruningSolution, solution, heapVars, checkVars, extraVars>>
           \/ Fails({})
           \/ \E leaked \in FilterFailures(k, n2) :
                  Fails({"new_rel_list"} \cup leaked)

\* Remap as a bug would have it: the sub-list indices returned as they are.
Remap_Forgotten ==
    /\ pc = "filtered"
    /\ solution' = filteringSolution
    /\ pc' = "done"
    /\ UNCHANGED <<metric, rel_list, k, optimal, pruner, epsilon,
                   pruningSolution, new_rel_list, filteringSolution, live,
                   heapVars, checkVars, extraVars>>

\* indices[i] = pruningSolution.indices[filteringSolution.indices[i]];
\* solution takes the filter's score and the remapped indices.  The model
\* keeps filteringSolution as the filter returned it.
Remap ==
    /\ pc = "filtered"
    /\ solution' =
         [score |-> filteringSolution.score,
          indices |-> [i \in 1..Len(filteringSolution.indices) |->
                          pruningSolution[filteringSolution.indices[i] + 1]]]
    /\ pc' = "done"
    /\ UNCHANGED <<metric, rel_list, k, optimal, pruner, epsilon,
                   pruningSolution, new_rel_list, filteringSolution, live,
                   heapVars, checkVars, extraVars>>

Next ==
    \/ Opt
    \/ CutoffOpt
    \/ TopkOpt
    \/ TopkOptimizedOpt
    \/ EpsFiltering
    \/ SecondStage
    \/ Remap

Spec == Init /\ [][Next]_vars

(***************************************************************************)
(* The filter called on its own, degenerate arguments included: any list   *)
(* of at most MaxN elements and any k in 0..MaxK.                          *)
(***************************************************************************)
FilterArgs ==
    /\ metric \in Metrics
    /\ rel_list \in UNION { [1..len -> 0..MaxRel] : len \in 0..MaxN }
    /\ k \in 0..MaxK
    /\ pc = "start"
    /\ optimal = EmptyFilterSolution
    /\ pruner = "none"
    /\ epsilon = NoEpsilon
    /\ pruningSolution = <<>>
    /\ new_rel_list = <<>>
    /\ filteringSolution = EmptyFilterSolution
    /\ solution = EmptyFilterSolution
    /\ live = {}
    /\ HeapIdle
    /\ CheckIdle
    /\ ExtraIdle

\* FilterSpirin::operator()(rel_list, n)
FilterCall ==
    /\ pc = "start"
    /\ \/ /\ optimal' = FilterSpirin(score_fun, k, rel_list, n)
          /\ pc' = "opt"
          /\ live' = FilterReturns
          /\ UNCHANGED <<metric, rel_list, k, pruner, epsilon, pruningSolution,
                         new_rel_list, filteringSolution, solution, heapVars, checkVars, extraVars>>
       \/ \E leaked \in FilterFailures(k, n) : Fails(leaked)

SpecFilter == FilterArgs /\ [][FilterCall]_vars

(***************************************************************************)
(* heapq on its own: a vector is heapified, then pushed to, popped and     *)
(* replaced in any order.  contents follows what the operations are given  *)
(* and what they take from the top.                                        *)
(***************************************************************************)
\* Longest vector explored.
MaxHeap == 4

\* Positions of the (relevance, position) pairs explored.
HeapPositions == {0, 1}

\* The elements of a vector under a comparator.
HeapElements(comp) ==
    IF comp = "relpos"
    THEN { relpos_pair(r, p) : r \in 0..MaxRel, p \in HeapPositions }
    ELSE 0..MaxRel

\* The elements of a vector, as a bag.
RECURSIVE BagOf(_)
BagOf(vec) ==
    IF vec = <<>> THEN EmptyBag
    ELSE BagOf(Tail(vec)) (+) SetToBag({Head(vec)})

\* No list under assessment.
ListIdle ==
    /\ metric = "dcg"
    /\ rel_list = <<>>
    /\ k = 0
    /\ pc = "heap"
    /\ optimal = EmptyFilterSolution
    /\ pruner = "none"
    /\ epsilon = NoEpsilon
    /\ pruningSolution = <<>>
    /\ new_rel_list = <<>>
    /\ filteringSolution = EmptyFilterSolution
    /\ solution = EmptyFilterSolution
    /\ live = {}

HeapInit ==
    /\ ListIdle
    /\ CheckIdle
    /\ ExtraIdle
    /\ heap_comp \in {"less", "relpos"}
    /\ heap \in UNION { [1..len -> HeapElements(heap_comp)] : len \in 0..MaxHeap }
    /\ heap_pc = "vec"
    /\ twin = <<>>
    /\ contents = BagOf(heap)

\* The vector is a heap: heapify ran.
HeapReady == heap_pc \in {"heap", "replaced"}

\* heapq::heapify(vec, comp)
Heapify ==
    /\ heap_pc = "vec"
    /\ heap' = heapify(heap, heap_comp)
    /\ heap_pc' = "heap"
    /\ twin' = <<>>
    /\ UNCHANGED <<listVars, checkVars, extraVars, heap_comp, contents>>

\* heapq::push(heap, element, comp)
Push ==
    /\ HeapReady
    /\ Len(heap) < MaxHeap
    /\ \E element \in HeapElements(heap_comp) :
         /\ heap' = push(heap, element, heap_comp)
         /\ contents' = contents (+) SetToBag({element})
    /\ heap_pc' = "heap"
    /\ twin' = <<>>
    /\ UNCHANGED <<listVars, checkVars, extraVars, heap_comp>>

\* heapq::pop(heap, comp), on a non-empty heap
Pop ==
    /\ HeapReady
    /\ heap # <<>>
    /\ heap' = pop(heap, heap_comp)
    /\ contents' = contents (-) SetToBag({heap[1]})
    /\ heap_pc' = "heap"
    /\ twin' = <<>>
    /\ UNCHANGED <<listVars, checkVars, extraVars, heap_comp>>

\* heapq::replace(heap, element, comp), on a non-empty heap
Replace ==
    /\ HeapReady
    /\ heap # <<>>
    /\ \E element \in HeapElements(heap_comp) :
         /\ heap' = replace(heap, element, heap_comp)
         /\ contents' = (contents (-) SetToBag({heap[1]})) (+) SetToBag({element})
         /\ twin' = push(pop(heap, heap_comp), element, heap_comp)
    /\ heap_pc' = "replaced"
    /\ UNCHANGED <<listVars, checkVars, extraVars, heap_comp>>

HeapNext ==
    \/ Heapify
    \/ Push
    \/ Pop
    \/ Replace

HeapSpec == HeapInit /\ [][HeapNext]_vars

(***************************************************************************)
(* check_solution on its own: a list, a solution with strictly increasing  *)
(* indices and a claimed score at, below or above the score of these       *)
(* indices, and the optional arguments in every combination.               *)
(***************************************************************************)
\* Longest list explored by the validator.
MaxCheckN == 2

\* The strictly increasing index lists of a list of length len.
IndexLists(len) ==
    { s \in UNION { [1..m -> 0..(len - 1)] : m \in 0..len } :
          \A i \in 1..(Len(s) - 1) : s[i] < s[i + 1] }

\* Claimed scores around a score: off by a quarter, by a half, by the whole.
ClaimedScores(score) ==
    { score - (score \div 4), score - (score \div 2), 0, score,
      score + (score \div 4), score + (score \div 2), 2 * score }

\* epsilon as the drivers pass it: 0 by default, 0.5 for Top-k, the epsilon
\* of the pruner for EpsPruning.
CheckEpsilons == {NoEpsilon} \cup Epsilons

CheckInit ==
    /\ metric \in Metrics
    /\ rel_list \in UNION { [1..len -> 0..MaxRel] : len \in 1..MaxCheckN }
    /\ k = 0
    /\ pc = "check"
    /\ optimal = EmptyFilterSolution
    /\ pruner = "none"
    /\ epsilon = NoEpsilon
    /\ pruningSolution = <<>>
    /\ new_rel_list = <<>>
    /\ filteringSolution = EmptyFilterSolution
    /\ \E indices \in IndexLists(Len(rel_list)) :
         \E score \in ClaimedScores(score_solution(score_fun, rel_list, indices)) :
             solution = [score |-> score, indices |-> indices]
    /\ live = {}
    /\ HeapIdle
    /\ \E eps \in CheckEpsilons : \E below, above \in BOOLEAN :
         \E opt \in {NoScore,
                      ScoreRef(score_solution(score_fun, rel_list, solution.indices))} :
             check_args = [optimal_score |-> opt, epsilon |-> eps,
                           epsilon_below |-> below, epsilon_above |-> above]
    /\ check_result = "pending"
    /\ ExtraIdle

\* check_solution(rel_list, score, indices, score_fun, optimal_score, epsilon,
\* epsilon_below, epsilon_above): returns, or throws with a message.
Check ==
    /\ check_result = "pending"
    /\ check_result' = check_solution(score_fun, rel_list, solution.score,
                                      solution.indices, check_args.optimal_score,
                                      check_args.epsilon, check_args.epsilon_below,
                                      check_args.epsilon_above)
    /\ UNCHANGED <<listVars, heapVars, extraVars, check_args>>

CheckSpec == CheckInit /\ [][Check]_vars

(***************************************************************************)
(* The allocation of M on its own: filter_impl is entered with an n of     *)
(* index_type and a this->k of k_type, small ones and ones near the limits *)
(* of int, of the 32-bit unsigned type and of k_type.                      *)
(***************************************************************************)
AllocLengths ==
    {W(x) : x \in {0, 1, 2, 3, 4, 1000, 46341, 46342, 65535, 65536, 92682,
                   4300000, 2147483647}}
    \cup {<<0, 0, 0, 128, 0, 0, 0, 0>>, <<1, 0, 0, 128, 0, 0, 0, 0>>, Uint32Max}

AllocKs == {0, 1, 2, 3, 1000, 46341, 46342, 65535}

AllocInit ==
    /\ metric = "dcg"
    /\ rel_list = <<>>
    /\ k = 0
    /\ pc = "alloc"
    /\ optimal = EmptyFilterSolution
    /\ pruner = "none"
    /\ epsilon = NoEpsilon
    /\ pruningSolution = <<>>
    /\ new_rel_list = <<>>
    /\ filteringSolution = EmptyFilterSolution
    /\ solution = EmptyFilterSolution
    /\ live = {}
    /\ HeapIdle
    /\ CheckIdle
    /\ alloc_n \in AllocLengths
    /\ alloc_k \in AllocKs
    /\ cells = [at |-> "pending", count |-> <<>>]
    /\ EpsIdle
    /\ DriverIdle

\* filter_impl up to new score_type[...]: the early return, or the cell count.
Allocate ==
    /\ cells.at = "pending"
    /\ IF alloc_n = W(0) \/ alloc_k = 0
       THEN cells' = [at |-> "returned", count |-> <<>>]
       ELSE cells' \in MCellCount(alloc_n, alloc_k)
    /\ UNCHANGED <<listVars, heapVars, checkVars, alloc_n, alloc_k, epsVars, driverVars>>

AllocSpec == AllocInit /\ [][Allocate]_vars

(***************************************************************************)
(* PrunerEpsPruning followed step by step: the set-up of the thresholds    *)
(* and boundaries, one iteration of the first scan at a time, the heapify  *)
(* with the first advance of min_interval_id, one iteration of the second  *)
(* scan at a time (its advance loop included), and the return.             *)
(***************************************************************************)
\* The longest list given to the pruner followed step by step.
MaxEpsN == 5

EpsInit ==
    /\ metric \in Metrics
    /\ rel_list \in UNION { [1..len -> 0..MaxRel] : len \in 1..MaxEpsN }
    /\ k \in 1..MaxK
    /\ pc = "eps"
    /\ optimal = EmptyFilterSolution
    /\ pruner = "epspruning"
    /\ epsilon \in Epsilons
    /\ pruningSolution = <<>>
    /\ new_rel_list = <<>>
    /\ filteringSolution = EmptyFilterSolution
    /\ solution = EmptyFilterSolution
    /\ live = {}
    /\ HeapIdle
    /\ CheckIdle
    /\ AllocIdle
    /\ DriverIdle
    /\ eps_pc = "start"
    /\ eps_i = 0
    /\ eps_indices = <<>>
    /\ eps_heap = <<>>
    /\ interval_boundaries = <<>>
    /\ min_interval_id = 0
    /\ min_threshold = [num |-> 0, den |-> 1]

EpsUnchanged == UNCHANGED <<listVars, heapVars, checkVars, allocVars, driverVars>>

\* Lines 368-408: min_gain, min_threshold, the boundaries, i = n.  The
\* conversion of the interval count may be undefined: the call then ends
\* there, or goes on with the size a saturating conversion gives.
EpsSetup ==
    /\ eps_pc = "start"
    /\ LET max_gain == gain_factor(score_fun, MinMax(rel_list).max)
           min_gain == EpsMinGain(score_fun, k, epsilon, MinMax(rel_list))
           intervals == EpsIntervals(min_gain, max_gain, epsilon)
       IN  \/ /\ eps_pc' = "first"
              /\ eps_i' = n
              /\ min_threshold' = min_gain
              /\ interval_boundaries' = EpsBoundaries(intervals.size, max_gain, epsilon)
              /\ UNCHANGED <<eps_indices, eps_heap, min_interval_id>>
           \/ /\ intervals.ub
              /\ eps_pc' = "crashed"
              /\ UNCHANGED <<eps_i, eps_indices, eps_heap, interval_boundaries,
                             min_interval_id, min_threshold>>
    /\ EpsUnchanged

\* EpsFirstStep as a bug would have it: the test is rel_list[i] > min_threshold.
EpsFirstStep_Strict ==
    /\ eps_pc = "first"
    /\ IF eps_i = 0
       THEN /\ eps_pc' = "heapify"
            /\ UNCHANGED <<eps_i, eps_indices, eps_heap>>
       ELSE /\ eps_i' = eps_i - 1
            /\ IF ~GainLessEq(gain_factor(score_fun, rel_list[eps_i]), min_threshold)
               THEN /\ eps_indices' = Append(eps_indices, eps_i - 1)
                    /\ eps_heap' = Append(eps_heap, rel_list[eps_i])
                    /\ eps_pc' = IF Len(eps_heap) + 1 = k THEN "heapify" ELSE "first"
               ELSE UNCHANGED <<eps_pc, eps_indices, eps_heap>>
    /\ UNCHANGED <<interval_boundaries, min_interval_id, min_threshold>>
    /\ EpsUnchanged

\* Lines 409-419: one iteration of while (i > 0) of the first scan.
EpsFirstStep ==
    /\ eps_pc = "first"
    /\ IF eps_i = 0
       THEN /\ eps_pc' = "heapify"
            /\ UNCHANGED <<eps_i, eps_indices, eps_heap>>
       ELSE /\ eps_i' = eps_i - 1
            /\ IF ~GainLess(gain_factor(score_fun, rel_list[eps_i]), min_threshold)
               THEN /\ eps_indices' = Append(eps_indices, eps_i - 1)
                    /\ eps_heap' = Append(eps_heap, rel_list[eps_i])
                    /\ eps_pc' = IF Len(eps_heap) + 1 = k THEN "heapify" ELSE "first"
               ELSE UNCHANGED <<eps_pc, eps_indices, eps_heap>>
    /\ UNCHANGED <<interval_boundaries, min_interval_id, min_threshold>>
    /\ EpsUnchanged

\* Lines 421-429: heapify, then the first advance of min_interval_id.  With an
\* empty heap the read of heap[0] is undefined: the call ends there, or goes
\* on to return what the first scan kept.  A boundary read past the last one
\* is recorded as "past_end".
EpsHeapify ==
    /\ eps_pc = "heapify"
    /\ LET heap1 == heapify(eps_heap, "less")
       IN  IF heap1 = <<>>
           THEN /\ eps_pc' \in {"crashed", "return"}
                /\ UNCHANGED <<eps_heap, min_interval_id, min_threshold>>
           ELSE LET id == EpsAdvance(interval_boundaries,
                                     gain_factor(score_fun, heap1[1]), 0)
                IN  /\ eps_heap' = heap1
                    /\ IF id \notin DOMAIN interval_boundaries
                       THEN /\ eps_pc' = "past_end"
                            /\ UNCHANGED <<min_interval_id, min_threshold>>
                       ELSE /\ eps_pc' = "second"
                            /\ min_interval_id' = id
                            /\ min_threshold' = interval_boundaries[id]
    /\ UNCHANGED <<eps_i, eps_indices, interval_boundaries>>
    /\ EpsUnchanged

\* EpsSecondStep as a bug would have it: the skip test is
\* rel_list[i] < min_threshold, so an element on the threshold is kept.
EpsSecondStep_KeepEqual ==
    /\ eps_pc = "second"
    /\ IF eps_i = 0
       THEN /\ eps_pc' = "return"
            /\ UNCHANGED <<eps_i, eps_indices, eps_heap, min_interval_id, min_threshold>>
       ELSE /\ eps_i' = eps_i - 1
            /\ IF GainLess(gain_factor(score_fun, rel_list[eps_i]), min_threshold)
               THEN UNCHANGED <<eps_pc, eps_indices, eps_heap, min_interval_id,
                                min_threshold>>
               ELSE LET heap2 == replace(eps_heap, rel_list[eps_i], "less")
                        top_gain == gain_factor(score_fun, heap2[1])
                    IN  /\ eps_indices' = Append(eps_indices, eps_i - 1)
                        /\ eps_heap' = heap2
                        /\ IF GainLessEq(top_gain, interval_boundaries[min_interval_id])
                           THEN UNCHANGED <<eps_pc, min_interval_id, min_threshold>>
                           ELSE LET id2 == EpsAdvance(interval_boundaries, top_gain,
                                                      min_interval_id + 1)
                                IN  IF id2 \notin DOMAIN interval_boundaries
                                    THEN /\ eps_pc' = "past_end"
                                         /\ UNCHANGED <<min_interval_id, min_threshold>>
                                    ELSE /\ min_interval_id' = id2
                                         /\ IF id2 = Cardinality(DOMAIN interval_boundaries) - 1
                                            THEN /\ eps_pc' = "return"
                                                 /\ UNCHANGED min_threshold
                                            ELSE /\ eps_pc' = "second"
                                                 /\ min_threshold' = interval_boundaries[id2]
    /\ UNCHANGED interval_boundaries
    /\ EpsUnchanged

\* Lines 431-450: one iteration of while (i > 0) of the second scan.
EpsSecondStep ==
    /\ eps_pc = "second"
    /\ IF eps_i = 0
       THEN /\ eps_pc' = "return"
            /\ UNCHANGED <<eps_i, eps_indices, eps_heap, min_interval_id, min_threshold>>
       ELSE /\ eps_i' = eps_i - 1
            /\ IF GainLessEq(gain_factor(score_fun, rel_list[eps_i]), min_threshold)
               THEN UNCHANGED <<eps_pc, eps_indices, eps_heap, min_interval_id,
                                min_threshold>>
               ELSE LET heap2 == replace(eps_heap, rel_list[eps_i], "less")
                        top_gain == gain_factor(score_fun, heap2[1])
                    IN  /\ eps_indices' = Append(eps_indices, eps_i - 1)
                        /\ eps_heap' = heap2
                        /\ IF GainLessEq(top_gain, interval_boundaries[min_interval_id])
                           THEN UNCHANGED <<eps_pc, min_interval_id, min_threshold>>
                           ELSE LET id2 == EpsAdvance(interval_boundaries, top_gain,
                                                      min_interval_id + 1)
                                IN  IF id2 \notin DOMAIN interval_boundaries
                                    THEN /\ eps_pc' = "past_end"
                                         /\ UNCHANGED <<min_interval_id, min_threshold>>
                                    ELSE /\ min_interval_id' = id2
                                         /\ IF id2 = Cardinality(DOMAIN interval_boundaries) - 1
                                            THEN /\ eps_pc' = "return"
                                                 /\ UNCHANGED min_threshold
                                            ELSE /\ eps_pc' = "second"
                                                 /\ min_threshold' = interval_boundaries[id2]
    /\ UNCHANGED interval_boundaries
    /\ EpsUnchanged

\* Lines 452-454: std::reverse(solution.indices), return solution.
EpsReturn ==
    /\ eps_pc = "return"
    /\ eps_pc' = "done"
    /\ eps_indices' = Reverse(eps_indices)
    /\ UNCHANGED <<eps_i, eps_heap, interval_boundaries, min_interval_id, min_threshold>>
    /\ EpsUnchanged

EpsNext == EpsSetup \/ EpsFirstStep \/ EpsHeapify \/ EpsSecondStep \/ EpsReturn

EpsSpec == EpsInit /\ [][EpsNext]_vars

(***************************************************************************)
(* The assessment driver: the validated n_cut_list and k_list, the input   *)
(* lists read one at a time, each assessed for every (n_cut, k) that is    *)
(* not skipped, the outcome accumulated in the slot the running index      *)
(* names, and the output loop.  An outcome is kept as the (n_cut, k) it    *)
(* was computed with; the strategies share the index, so one outcome list  *)
(* stands for all of them.                                                 *)
(***************************************************************************)
\* The largest cut of n and the longest input list, and the number of lists.
MaxCut == 3
MaxLists == 2

\* std::sort of a list of distinct values.
RECURSIVE SortedList(_)
SortedList(S) ==
    IF S = {} THEN <<>>
    ELSE LET m == CHOOSE x \in S : \A y \in S : x <= y
         IN  <<m>> \o SortedList(S \ {m})

\* n_cut_list after the checks of main: sorted, no duplicates, at most one
\* 0, moved to the end; not empty.
ValidCutLists ==
    { SortedList(S) \o zero : S \in SUBSET (1..MaxCut), zero \in {<<>>, <<0>>} } \ {<<>>}

\* k_list after the checks of main: sorted, no duplicates, all > 0, not empty.
ValidKLists == { SortedList(S) : S \in (SUBSET (1..MaxK)) \ {{}} }

\* The last check of main: the smallest k is not greater than the smallest
\* positive cut.
ValidatedTogether(cuts, ks) == cuts[1] > 0 => ks[1] <= cuts[1]

num_tests == Len(n_cut_list) * Len(k_list)

Combinations ==
    { <<n_cut_list[ni], k_list[ki]>> : ni \in 1..Len(n_cut_list), ki \in 1..Len(k_list) }

DriverInit ==
    /\ metric = "dcg"
    /\ rel_list = <<>>
    /\ k = 0
    /\ pc = "driver"
    /\ optimal = EmptyFilterSolution
    /\ pruner = "none"
    /\ epsilon = NoEpsilon
    /\ pruningSolution = <<>>
    /\ new_rel_list = <<>>
    /\ filteringSolution = EmptyFilterSolution
    /\ solution = EmptyFilterSolution
    /\ live = {}
    /\ HeapIdle
    /\ CheckIdle
    /\ AllocIdle
    /\ EpsIdle
    /\ driver_pc = "reading"
    /\ n_cut_list \in ValidCutLists
    /\ k_list \in ValidKLists
    /\ ValidatedTogether(n_cut_list, k_list)
    /\ skip_shorter_lists \in BOOLEAN
    /\ lists_left \in 0..MaxLists
    /\ test_opt_outcome_list = [index \in 0..(num_tests - 1) |-> {}]
    /\ num_lists_assessed_list = [index \in 0..(num_tests - 1) |-> 0]
    /\ assessed = [c \in Combinations |-> 0]
    /\ printed = <<>>

\* The loop over the values of k for one cut (lines 286-337): a k greater
\* than the cut is skipped with continue, the index unchanged; otherwise the
\* outcome goes to the slot of the index, its count and the index go up.
RECURSIVE AssessKs(_, _, _, _)
AssessKs(n_cut, ki, index, st) ==
    IF ki > Len(k_list) THEN [index |-> index, st |-> st]
    ELSE IF n_cut > 0 /\ k_list[ki] > n_cut
    THEN AssessKs(n_cut, ki + 1, index, st)
    ELSE AssessKs(n_cut, ki + 1, index + 1,
             [outcomes |-> [st.outcomes EXCEPT ![index] = @ \cup {<<n_cut, k_list[ki]>>}],
              counts |-> [st.counts EXCEPT ![index] = @ + 1],
              assessed |-> [st.assessed EXCEPT ![<<n_cut, k_list[ki]>>] = @ + 1],
              in_range |-> st.in_range /\ index \in DOMAIN st.outcomes])

\* The loop over the cuts for one list of the given size (lines 260-338): a
\* cut the list is too short for, and an empty list, move the index on by
\* k_list.size().
RECURSIVE AssessCuts(_, _, _, _)
AssessCuts(size, ni, index, st) ==
    IF ni > Len(n_cut_list) THEN st
    ELSE LET n_cut == n_cut_list[ni]
             len == IF n_cut > 0 THEN Min(size, n_cut) ELSE size
         IN  IF skip_shorter_lists /\ n_cut > len
             THEN AssessCuts(size, ni + 1, index + Len(k_list), st)
             ELSE IF len = 0
             THEN AssessCuts(size, ni + 1, index + Len(k_list), st)
             ELSE LET done == AssessKs(n_cut, 1, index, st)
                  IN  AssessCuts(size, ni + 1, done.index, done.st)

DriverUnchanged == UNCHANGED <<listVars, heapVars, checkVars, allocVars, epsVars>>

\* One iteration of the loop over the input lists (lines 237-339).
ProcessList ==
    /\ driver_pc = "reading"
    /\ lists_left > 0
    /\ \E size \in 0..MaxCut :
         LET st == AssessCuts(size, 1, 0,
                              [outcomes |-> test_opt_outcome_list,
                               counts |-> num_lists_assessed_list,
                               assessed |-> assessed, in_range |-> TRUE])
         IN  /\ test_opt_outcome_list' = st.outcomes
             /\ num_lists_assessed_list' = st.counts
             /\ assessed' = st.assessed
             /\ driver_pc' = IF st.in_range THEN "reading" ELSE "out_of_range"
    /\ lists_left' = lists_left - 1
    /\ UNCHANGED <<n_cut_list, k_list, skip_shorter_lists, printed>>
    /\ DriverUnchanged

\* The output loop over the values of k for one cut (lines 352-391).
RECURSIVE PrintKs(_, _, _, _)
PrintKs(n_cut, ki, index, out) ==
    IF ki > Len(k_list) THEN [index |-> index, out |-> out]
    ELSE IF n_cut > 0 /\ k_list[ki] > n_cut
    THEN PrintKs(n_cut, ki + 1, index, out)
    ELSE PrintKs(n_cut, ki + 1, index + 1,
                 Append(out, [n_cut |-> n_cut, k |-> k_list[ki],
                              num_lists_assessed |-> num_lists_assessed_list[index],
                              outcomes |-> test_opt_outcome_list[index]]))

\* The output loop over the cuts (lines 347-392).
RECURSIVE PrintCuts(_, _, _)
PrintCuts(ni, index, out) ==
    IF ni > Len(n_cut_list) THEN out
    ELSE LET done == PrintKs(n_cut_list[ni], 1, index, out)
         IN  PrintCuts(ni + 1, done.index, done.out)

\* The output, once every list is read (lines 345-394).
Output ==
    /\ driver_pc = "reading"
    /\ lists_left = 0
    /\ printed' = PrintCuts(1, 0, <<>>)
    /\ driver_pc' = "printed"
    /\ UNCHANGED <<n_cut_list, k_list, skip_shorter_lists, lists_left,
                   test_opt_outcome_list, num_lists_assessed_list, assessed>>
    /\ DriverUnchanged

DriverNext == ProcessList \/ Output

DriverSpec == DriverInit /\ [][DriverNext]_vars

(***************************************************************************)
(* Properties                                                              *)
(***************************************************************************)
StrictlyIncreasing(s) == \A i \in 1..(Len(s) - 1) : s[i] < s[i + 1]

IndicesWithin(s, len) == \A i \in 1..Len(s) : s[i] \in 0..(len - 1)

\* The elements of a set of indices, in increasing order.
RECURSIVE Ascending(_)
Ascending(S) ==
    IF S = {} THEN <<>>
    ELSE LET m == CHOOSE x \in S : \A y \in S : x <= y
         IN  <<m>> \o Ascending(S \ {m})

\* The index subsets of a list of length len with at most size elements.
SubsetsUpTo(len, size) ==
    { S \in SUBSET (0..(len - 1)) : Cardinality(S) <= size }

SubsetScore(rel, S) == score_solution(score_fun, rel, Ascending(S))

\* The largest score of an index subset of rel with at most kk elements.
BestSubsetScore(rel, kk) ==
    LET scores == { SubsetScore(rel, S) : S \in SubsetsUpTo(Len(rel), kk) }
    IN  CHOOSE best \in scores : \A other \in scores : other <= best

OptRan == pc \notin {"start", "failed"}
SecondStageRan == pc \in {"filtered", "done"}
PrunerReturned == pc \in {"pruned", "filtered", "done"}
IsTopk == pruner \in {"topk", "topk_optimized"}

\* C1: the score FilterSpirin returns is the maximum score over the strictly
\* increasing index subsets with at most k elements, on the whole list and on
\* every pruned list it is run on.
C1_FilterOptimal ==
    /\ OptRan => optimal.score = BestSubsetScore(rel_list, k)
    /\ SecondStageRan =>
           filteringSolution.score = BestSubsetScore(new_rel_list, k)

\* The filter ran on a list longer than k and found a positive score with k items.
C1_Witness ==
    /\ pc = "opt" /\ k < n /\ k >= 2
    /\ optimal.score > 0 /\ Len(optimal.indices) = k
    /\ optimal.indices # Identity(k)

\* C2: the filter run on the list pruned by PrunerEpsPruning scores at least
\* (1 - epsilon) times the filter run on the whole list.
C2_EpsGuarantee ==
    (pc = "done" /\ pruner = "epspruning") =>
        epsilon.den * solution.score >= (epsilon.den - epsilon.num) * optimal.score

\* C3: the filter run on the list pruned by a Top-k pruner scores at least
\* half of the filter run on the whole list.
C3_TopkHalf ==
    (SecondStageRan /\ IsTopk) => 2 * filteringSolution.score >= optimal.score

\* A Top-k pruner dropped elements and the pruned score is below the optimum.
C3_Witness ==
    /\ pc = "done" /\ IsTopk /\ n > k
    /\ solution.score < optimal.score

\* C4: the indices FilterSpirin returns are strictly increasing, lie in
\* 0..n-1 and are at most min(k, n).
C4_FilterIndices ==
    /\ OptRan =>
        /\ StrictlyIncreasing(optimal.indices)
        /\ IndicesWithin(optimal.indices, n)
        /\ Len(optimal.indices) <= Min(k, n)
    /\ SecondStageRan =>
        /\ StrictlyIncreasing(filteringSolution.indices)
        /\ IndicesWithin(filteringSolution.indices, Len(new_rel_list))
        /\ Len(filteringSolution.indices) <= Min(k, Len(new_rel_list))

\* The filter returned several indices that are not a prefix of the list.
C4_Witness ==
    /\ pc = "opt" /\ Len(optimal.indices) >= 2
    /\ optimal.indices[1] > 0
    /\ optimal.indices[2] > optimal.indices[1] + 1

\* C5: the score FilterSpirin returns is the score score_solution recomputes
\* from the returned indices.
C5_ScoreConsistent ==
    /\ OptRan =>
           optimal.score = score_solution(score_fun, rel_list, optimal.indices)
    /\ SecondStageRan =>
           filteringSolution.score =
               score_solution(score_fun, new_rel_list, filteringSolution.indices)

\* The filter skipped rows between and after the rows it selected.
C5_Witness ==
    /\ pc = "opt" /\ optimal.score > 0
    /\ Len(optimal.indices) >= 2
    /\ optimal.indices[Len(optimal.indices)] < n - 1
    /\ optimal.indices # Identity(Len(optimal.indices))

\* C6: the indices every pruner returns are strictly increasing and lie in 0..n-1.
C6_PrunerIndices ==
    PrunerReturned =>
        /\ StrictlyIncreasing(pruningSolution)
        /\ IndicesWithin(pruningSolution, n)

\* EpsPruning kept elements in both scans and dropped others.
C6_Witness ==
    /\ pc = "pruned" /\ pruner = "epspruning"
    /\ Len(pruningSolution) > k /\ Len(pruningSolution) < n

\* C7: the filter run on a pruned list never scores more than the filter run
\* on the whole list.
C7_OneSided ==
    SecondStageRan => filteringSolution.score <= optimal.score

\* A pruner dropped elements and the filter still reached the optimum.
C7_Witness ==
    /\ pc = "filtered" /\ pruner = "cutoff"
    /\ Len(pruningSolution) < n
    /\ filteringSolution.score = optimal.score /\ optimal.score > 0

\* C8: the composition returns indices[i] = P.indices[F.indices[i]], strictly
\* increasing positions of the original list, as many as the filter returned,
\* and its score is the score of these indices on the original list.
C8_Remap ==
    pc = "done" =>
        /\ Len(solution.indices) = Len(filteringSolution.indices)
        /\ \A i \in 1..Len(solution.indices) :
               solution.indices[i] = pruningSolution[filteringSolution.indices[i] + 1]
        /\ StrictlyIncreasing(solution.indices)
        /\ IndicesWithin(solution.indices, n)
        /\ solution.score = score_solution(score_fun, rel_list, solution.indices)

\* The remap changed the indices the filter returned.
C8_Witness ==
    /\ pc = "done" /\ Len(solution.indices) >= 2
    /\ solution.indices # filteringSolution.indices
    /\ solution.score > 0

\* C9 as stated: no subset with fewer indices than the returned solution
\* reaches the returned score (the empty subset included).
C9_NoSmallerSubset ==
    OptRan =>
        \A S \in SubsetsUpTo(n, k) :
            Cardinality(S) < Len(optimal.indices) =>
                SubsetScore(rel_list, S) < optimal.score

\* C9, amended: no non-empty subset with fewer indices than the returned
\* solution reaches the returned score.
C9_SmallestSize ==
    OptRan =>
        \A S \in SubsetsUpTo(n, k) :
            (S # {} /\ Cardinality(S) < Len(optimal.indices)) =>
                SubsetScore(rel_list, S) < optimal.score

\* Two subset sizes reach the optimal score and the filter returned the smaller.
C9_Witness ==
    /\ pc = "opt" /\ optimal.score > 0
    /\ \E S \in SubsetsUpTo(n, k) :
           /\ Cardinality(S) > Len(optimal.indices)
           /\ SubsetScore(rel_list, S) = optimal.score

\* C10: a Top-k pruner returns exactly min(k, n) indices, in the original
\* order, and no relevance left out is greater than a relevance kept.
C10_TopkSelection ==
    (PrunerReturned /\ IsTopk) =>
        /\ Len(pruningSolution) = Min(k, n)
        /\ StrictlyIncreasing(pruningSolution)
        /\ LET kept == { pruningSolution[i] : i \in 1..Len(pruningSolution) }
           IN  \A out \in (0..(n - 1)) \ kept : \A in \in kept :
                   rel_list[out + 1] <= rel_list[in + 1]

\* The straightforward Top-k pruner left out an element tied with a kept one,
\* and kept a greater one that came after the first k elements.
C10_Witness ==
    /\ pc = "pruned" /\ pruner = "topk" /\ n > k /\ k >= 2
    /\ LET kept == { pruningSolution[i] : i \in 1..Len(pruningSolution) }
       IN  /\ \E out \in (0..(n - 1)) \ kept : \E in \in kept :
                  rel_list[out + 1] = rel_list[in + 1]
           /\ \E big \in kept : \E in \in kept :
                  big >= k /\ rel_list[big + 1] > rel_list[in + 1]

\* The values of a list, and the least and the greatest of them.
Values(rel) == { rel[i] : i \in 1..Len(rel) }
Least(S) == CHOOSE x \in S : \A y \in S : x <= y
Greatest(S) == CHOOSE x \in S : \A y \in S : y <= x

\* The set of the indices of a solution.
IndexSet(s) == { s[i] : i \in 1..Len(s) }

\* C11: PrunerCutoff returns exactly the indices i with
\* rel[i] >= (min + max) / 2, each once; every position of the maximum is
\* kept and the result is not empty.
C11_CutoffSelection ==
    (PrunerReturned /\ pruner = "cutoff") =>
        LET lo == Least(Values(rel_list))
            hi == Greatest(Values(rel_list))
        IN  /\ IndexSet(pruningSolution) =
                   { i \in 0..(n - 1) : 2 * rel_list[i + 1] >= lo + hi }
            /\ Len(pruningSolution) = Cardinality(IndexSet(pruningSolution))
            /\ \A i \in 0..(n - 1) :
                   rel_list[i + 1] = hi => i \in IndexSet(pruningSolution)
            /\ pruningSolution # <<>>

\* Cutoff kept an element exactly at the threshold, below the maximum, and
\* dropped another.
C11_Witness ==
    /\ pc = "pruned" /\ pruner = "cutoff"
    /\ Len(pruningSolution) < n
    /\ \E i \in IndexSet(pruningSolution) :
           /\ 2 * rel_list[i + 1] =
                  Least(Values(rel_list)) + Greatest(Values(rel_list))
           /\ rel_list[i + 1] < Greatest(Values(rel_list))


\* C12: FilterSpirin called with n = 0 or k = 0 returns no index and score
\* 0, and reads no cell of the relevance list and no entry of the metric
\* tables.
C12_Degenerate ==
    (pc = "opt" /\ (n = 0 \/ k = 0)) =>
        /\ optimal.indices = <<>>
        /\ optimal.score = 0
        /\ FilterReads(k, n).rel_list = {}
        /\ FilterReads(k, n).discounts = {}

\* The filter was called with k = 0 on a list whose optimum for k >= 1 is positive.
C12_Witness ==
    /\ pc = "opt" /\ k = 0 /\ n >= 2
    /\ \E i \in 1..n : rel_list[i] > 0


\* C13: when the pruner keeps every index (either Top-k pruner with n <= k,
\* or any pruner that returns 0..n-1), the composition returns the indices
\* and the score of the filter run alone on the list.
C13_RoundTrip ==
    (pc = "done"
        /\ ((IsTopk /\ n <= k) \/ pruningSolution = [i \in 1..n |-> i - 1])) =>
        /\ solution.indices = optimal.indices
        /\ solution.score = optimal.score

\* A Top-k pruner kept the whole list (n <= k) and the filter then dropped
\* elements of it.
C13_Witness ==
    /\ pc = "done" /\ IsTopk /\ n <= k /\ n >= 2
    /\ pruningSolution = [i \in 1..n |-> i - 1]
    /\ solution.score > 0
    /\ Len(solution.indices) < n
    /\ solution.indices[1] > 0


\* No element is smaller than its parent under the comparator.
HeapOrdered(h, comp) ==
    \A pos \in 1..(Len(h) - 1) : ~Less(comp, h[pos + 1], h[parent(pos) + 1])

\* C14: after heapify, and after any sequence of push, pop and replace, no
\* element is smaller than its parent, heap[0] is a minimum, and the vector
\* holds the initial elements plus those pushed and replacing, minus the
\* tops that pop and replace removed.
C14_HeapInvariant ==
    HeapReady =>
        /\ HeapOrdered(heap, heap_comp)
        /\ \A i \in 1..Len(heap) : ~Less(heap_comp, heap[i], heap[1])
        /\ BagOf(heap) = contents

\* A full heap with a strict minimum on top, a tie between an element and
\* its parent, and a layout that is not sorted.
C14_Witness ==
    /\ HeapReady /\ Len(heap) = MaxHeap
    /\ \A i \in 2..Len(heap) : Less(heap_comp, heap[1], heap[i])
    /\ Less(heap_comp, heap[3], heap[2])
    /\ ~Less(heap_comp, heap[2], heap[4]) /\ ~Less(heap_comp, heap[4], heap[2])


\* C15: replace(x) on a non-empty heap leaves a heap, with the elements pop
\* followed by push(x) would leave, and a top that is a minimum like theirs
\* (neither top is smaller than the other); the layouts may differ.
C15_ReplaceEquivalence ==
    heap_pc = "replaced" =>
        /\ HeapOrdered(heap, heap_comp)
        /\ HeapOrdered(twin, heap_comp)
        /\ BagOf(heap) = BagOf(twin)
        /\ ~Less(heap_comp, heap[1], twin[1])
        /\ ~Less(heap_comp, twin[1], heap[1])

\* replace sifted the new element down, and left a layout that pop followed
\* by push does not leave.
C15_Witness ==
    /\ heap_pc = "replaced" /\ Len(heap) >= 3
    /\ heap # twin
    /\ \E i \in 2..Len(heap) : Less(heap_comp, heap[1], heap[i])


\* The sum of discount(i) for i = l..r, term by term.
RECURSIVE DirectSum(_, _, _)
DirectSum(sf, l, r) ==
    IF r < l THEN 0 ELSE DirectSum(sf, l, r - 1) + discount_factor(sf, r)

\* C16: for a metric built with max_position = max_k, discount(0) = 0,
\* discount(p) is strictly decreasing over 1..max_k, and
\* discount_factor_sum(l, r) is the sum of discount(l..r) for every
\* 1 <= l <= r <= max_k, read from table entries 0..max_k only.
C16_MetricTables ==
    \A max_k \in 1..MaxK :
        LET sf == ScoreFun(metric, max_k)
        IN  /\ DOMAIN sf.discounts = 0..max_k
            /\ DOMAIN sf.discount_sums = 0..max_k
            /\ discount_factor(sf, 0) = 0
            /\ \A p \in 1..(max_k - 1) :
                   discount_factor(sf, p) > discount_factor(sf, p + 1)
            /\ \A l \in 1..max_k : \A r \in l..max_k :
                   /\ SumReads(l, r) \subseteq DOMAIN sf.discount_sums
                   /\ discount_factor_sum(sf, l, r) = DirectSum(sf, l, r)

\* EpsPruning ran with the largest k, for which discount_factor_sum(2, k)
\* is a sum of several discounts.
C16_Witness ==
    /\ pc = "pruned" /\ pruner = "epspruning" /\ k = MaxK
    /\ discount_factor_sum(score_fun, 2, k) > discount_factor(score_fun, 2)
    /\ discount_factor_sum(score_fun, 2, k) =
           score_fun.discount_sums[k] - discount_factor(score_fun, 1)


\* C17: every buffer a call acquires (M and the gain/discount buffer of the
\* filter, the sub-list of the composition) is released on every exit path
\* of the call, the exits by an exception included: between calls nothing
\* is left allocated.
C17_Released == live = {}


\* C18: check_solution reports a failure whenever the claimed score differs
\* from the score recomputed from the indices, whatever epsilon and flags it
\* is called with.
C18_ReportsDeviation ==
    (check_result \notin {"idle", "pending"}
        /\ solution.score # score_solution(score_fun, rel_list, solution.indices)) =>
        check_result # "passed"


\* max_gain and min_gain as PrunerEpsPruning computes them for the list, k
\* and epsilon of the state.
StateMaxGain == gain_factor(score_fun, MinMax(rel_list).max)
StateMinGain == EpsMinGain(score_fun, k, epsilon, MinMax(rel_list))

EpsRan == pruner = "epspruning"

\* C19: for every valid input of PrunerEpsPruning, min_gain does not exceed
\* max_gain, the heap is not empty when its top is first read (the call
\* meets no undefined behaviour), and the pruner returns at least one index.
C19_MinGainWithinMax ==
    EpsRan =>
        /\ StateMinGain.den > 0
        /\ StateMinGain.num <= StateMaxGain * StateMinGain.den
        /\ pc # "crashed"
        /\ pruningSolution # <<>>

\* C20: the divisor delta * discount_factor_sum(2, k) of min_gain is strictly
\* positive for every k >= 1 the pruner is given.
C20_DivisorPositive ==
    EpsRan =>
        (epsilon.den - epsilon.num) * discount_factor_sum(score_fun, 2, k) > 0



(***************************************************************************)
(* C21: DP storage safety.  For n >= 1 and k >= 1 (k > n included), every  *)
(* read of M during the filling and the trace-back uses an offset below    *)
(* the allocated cell count, addresses a cell written earlier, and the     *)
(* cell [row, col] the code means exists in its row: col <= min(row, k-1), *)
(* so the offset never lands on a cell of another row.                     *)
(***************************************************************************)
ReadInBounds(rd) == rd.off >= 0 /\ rd.off < MSize(n, Min(k, n))

ReadInRow(rd) == rd.col >= 0 /\ rd.col <= Min(rd.row, Min(k, n) - 1)

C21_StorageSafety ==
    (OptRan /\ n >= 1 /\ k >= 1) =>
        \A rd \in FilterMReads(score_fun, k, rel_list, n) :
            ReadInBounds(rd) /\ rd.written /\ ReadInRow(rd)

\* The part of C21 the reads do satisfy: in bounds and written earlier.
ReadsInBoundsAndWritten ==
    (OptRan /\ n >= 1 /\ k >= 1) =>
        \A rd \in FilterMReads(score_fun, k, rel_list, n) :
            ReadInBounds(rd) /\ rd.written


(***************************************************************************)
(* C22: DP cell meaning.  After the table is filled, for every row in      *)
(* 0..n-1 and col in 0..min(row, k-1), M[row, col] is the best score of a  *)
(* selection of exactly col+1 items from rel[0..row] -- as stated, with    *)
(* the last selected item at position row; as the code computes it, with   *)
(* the last selected item anywhere in 0..row.                              *)
(***************************************************************************)
\* The subsets of 0..row with exactly size elements.
SubsetsExactly(row, size) ==
    { S \in SUBSET (0..row) : Cardinality(S) = size }

\* Best score of exactly col+1 items from rel[0..row].
BestExactly(rel, row, col) ==
    Greatest({ SubsetScore(rel, S) : S \in SubsetsExactly(row, col + 1) })

\* Best score of exactly col+1 items from rel[0..row], the last one at row.
BestExactlyEndingAt(rel, row, col) ==
    Greatest({ SubsetScore(rel, S) :
                        S \in { T \in SubsetsExactly(row, col + 1) : row \in T } })

\* The cell M[row, col] of a filled table M.
Cell(M, row, col) == M[RowShift(row, Min(k, n)) + col]

\* The statement as written: the last selected item is at position row.
C22_CellEndsAtRow ==
    (pc = "opt") =>
        LET M == FilledTable(score_fun, k, rel_list, n)
        IN  \A row \in 0..(n - 1) : \A col \in 0..Min(row, Min(k, n) - 1) :
                Cell(M, row, col) = BestExactlyEndingAt(rel_list, row, col)

\* The statement the code satisfies: the last selected item is anywhere in
\* 0..row.
C22_CellBestExactly ==
    (pc = "opt") =>
        LET M == FilledTable(score_fun, k, rel_list, n)
        IN  \A row \in 0..(n - 1) : \A col \in 0..Min(row, Min(k, n) - 1) :
                Cell(M, row, col) = BestExactly(rel_list, row, col)

\* The filter ran on a list where some cell of the rectangular block holds a
\* score that no selection ending at its row reaches.
C22_Witness ==
    /\ pc = "opt"
    /\ LET M == FilledTable(score_fun, k, rel_list, n)
       IN  \E row \in 0..(n - 1) : \E col \in 0..Min(row, Min(k, n) - 1) :
               /\ row >= k /\ col >= 1
               /\ Cell(M, row, col) = BestExactly(rel_list, row, col)
               /\ Cell(M, row, col) > BestExactlyEndingAt(rel_list, row, col)


(***************************************************************************)
(* C23: allocation size.  For every n of index_type and every k of k_type  *)
(* with 1 <= k <= n, the cell count computed in the widths of the code is  *)
(* the mathematical value k(k+1)/2 + k(n-k): no overflow, no wrap-around.  *)
(***************************************************************************)
\* k(k+1)/2 + k(n-k), without a width.
MathCellCount(len, kk) ==
    WAdd(WHalf(WMul(kk, WAdd(kk, W(1)))), WMul(kk, WSub(len, kk)))

C23_AllocationSize ==
    (cells.at \in {"allocated", "trapped"} /\ alloc_k >= 1 /\ ~WLess(alloc_n, W(alloc_k))) =>
        /\ cells.at = "allocated"
        /\ cells.count = MathCellCount(alloc_n, W(alloc_k))

\* The inputs on which the computed count is the mathematical one: those whose
\* product (k - 1) * k fits an int and whose mathematical count fits the
\* 32-bit unsigned type.
AllocationFits ==
    (cells.at \in {"allocated", "trapped"} /\ alloc_k >= 1 /\ ~WLess(alloc_n, W(alloc_k))) =>
        ((/\ ~FirstTermOverflows(W(alloc_k))
          /\ ~WLess(Uint32Max, MathCellCount(alloc_n, W(alloc_k))))
            <=> (cells.at = "allocated"
                 /\ cells.count = MathCellCount(alloc_n, W(alloc_k))))


(***************************************************************************)
(* C24: EpsPruning interval tracking.  Whenever at least one element       *)
(* passed the first scan, throughout steps 6 and 7 min_interval_id stays   *)
(* within 0..I-1 (no boundary is read past the last one, so the advance    *)
(* loops end), it never decreases, min_threshold never decreases, after    *)
(* each advance boundaries[min_interval_id] >= heap top, and once          *)
(* min_interval_id is at the last boundary no further element is kept.     *)
(***************************************************************************)
\* a <= b for two gains kept as rationals with positive denominators.
RatLessEq(a, b) == a.num * b.den <= b.num * a.den

LastInterval == Cardinality(DOMAIN interval_boundaries) - 1

\* Steps 6 and 7 are under way or over, with a heap that is not empty.
EpsTracking == eps_pc \in {"second", "return", "done"} /\ eps_heap # <<>>

EpsTrackingInvariant ==
    /\ (eps_pc = "past_end") => (eps_heap = <<>>)
    /\ EpsTracking =>
          /\ min_interval_id \in 0..LastInterval
          /\ GainLessEq(gain_factor(score_fun, eps_heap[1]),
                        interval_boundaries[min_interval_id])

EpsTrackingStep ==
    (eps_pc \in {"heapify", "second", "return"} /\ eps_heap # <<>>) =>
        /\ min_interval_id' >= min_interval_id
        /\ RatLessEq(min_threshold, min_threshold')
        /\ (eps_pc # "heapify" /\ min_interval_id = LastInterval) =>
               IndexSet(eps_indices') = IndexSet(eps_indices)

C24_IntervalTracking == [](EpsTrackingInvariant) /\ [][EpsTrackingStep]_vars

\* The second scan has kept an element beyond the first k and has moved
\* min_interval_id to an interval that is neither the first nor the last.
C24_Witness ==
    /\ eps_pc = "second"
    /\ Len(eps_indices) > k
    /\ min_interval_id > 0
    /\ min_interval_id < LastInterval
    /\ Len(eps_heap) = k


(***************************************************************************)
(* C25: EpsPruning first scan.  Every index PrunerEpsPruning keeps has     *)
(* rel[i] >= the initial min_threshold, and the rightmost min(k, c)        *)
(* positions with rel[i] >= min_threshold, c being their number, are kept. *)
(***************************************************************************)
\* The positions that pass the initial threshold.
Passing ==
    { i \in 0..(n - 1) : ~GainLess(gain_factor(score_fun, rel_list[i + 1]), StateMinGain) }

\* The rightmost min(k, c) of them.
RightmostPassing ==
    { i \in Passing : Cardinality({ j \in Passing : j > i }) < k }

C25_FirstScan ==
    (eps_pc = "done") =>
        /\ IndexSet(eps_indices) \subseteq Passing
        /\ RightmostPassing \subseteq IndexSet(eps_indices)

\* The pruner returned with more than k positions passing, one of them kept by
\* the second scan, and a position that does not pass.
C25_Witness ==
    /\ eps_pc = "done"
    /\ Cardinality(Passing) > k
    /\ Len(eps_indices) > k
    /\ \E i \in 0..(n - 1) : i \notin Passing


(***************************************************************************)
(* C26: EpsPruning output bound.  The number of indices PrunerEpsPruning   *)
(* holds, and returns, is at most k times the number I of interval         *)
(* boundaries, and at most n.                                              *)
(***************************************************************************)
C26_OutputBound ==
    (eps_pc \in {"second", "return", "done"}) =>
        /\ Len(eps_indices) <= k * Cardinality(DOMAIN interval_boundaries)
        /\ Len(eps_indices) <= n

\* The pruner returned after its second scan kept elements beyond the first k,
\* dropped others, and moved min_interval_id to the last interval.
C26_Witness ==
    /\ eps_pc = "done"
    /\ Len(eps_indices) > k
    /\ Len(eps_indices) < n
    /\ min_interval_id = LastInterval
    /\ LastInterval >= 2

(***************************************************************************)
(* C27: for n >= 1 and k >= 1 the solution FilterSpirin returns holds at   *)
(* least one index, and when every relevance has zero gain it is exactly   *)
(* indices = [0] with score 0.                                             *)
(***************************************************************************)
AllZeroGain(rel) == \A i \in 1..Len(rel) : gain_factor(score_fun, rel[i]) = 0

C27_NeverEmpty ==
    /\ (pc = "opt" /\ n >= 1 /\ k >= 1) =>
          /\ optimal.indices # <<>>
          /\ AllZeroGain(rel_list) => optimal = [score |-> 0, indices |-> <<0>>]
    /\ (pc = "filtered" /\ Len(new_rel_list) >= 1 /\ k >= 1) =>
          /\ filteringSolution.indices # <<>>
          /\ AllZeroGain(new_rel_list) =>
                 filteringSolution = [score |-> 0, indices |-> <<0>>]

\* The filter ran with k >= 2 on a list of several elements, all of zero gain.
C27_Witness ==
    /\ OptRan /\ n >= 3 /\ k >= 2
    /\ AllZeroGain(rel_list)
    /\ optimal.indices = <<0>>

(***************************************************************************)
(* C28: tie-break on position.  Among the optimal subsets of minimum size  *)
(* FilterSpirin returns the one that prefers earlier positions: its last   *)
(* index is the smallest last index of any such subset, and, the later     *)
(* indices being given, each earlier index is the smallest possible.  A    *)
(* subset with a last index is not empty.                                  *)
(***************************************************************************)
\* The non-empty index subsets of rel with at most kk elements that reach the
\* best score.
OptimalSubsets(rel, kk) ==
    LET best == BestSubsetScore(rel, kk)
    IN  { S \in SubsetsUpTo(Len(rel), kk) : S # {} /\ SubsetScore(rel, S) = best }

\* Those of them with the fewest elements.
SmallestOptimalSubsets(rel, kk) ==
    LET optimals == OptimalSubsets(rel, kk)
        fewest == Least({ Cardinality(S) : S \in optimals })
    IN  { S \in optimals : Cardinality(S) = fewest }

\* R prefers earlier positions than S, both of one size: they are equal, or,
\* read from the last index down, the first index on which they differ is
\* smaller in R (the largest index that is in one of them only is in S).
PrefersEarlier(R, S) ==
    LET differ == (R \ S) \cup (S \ R)
    IN  differ = {} \/ Greatest(differ) \in S

PairwiseDistinct(rel) ==
    \A i, j \in 1..Len(rel) : i # j => rel[i] # rel[j]

C29_TopkVariantsAgree ==
    (pc = "pruned" /\ PairwiseDistinct(rel_list)) =>
        /\ pruner = "topk" => pruningSolution = PrunerTopkOptimized(rel_list, k)
        /\ pruner = "topk_optimized" => pruningSolution = PrunerTopk(rel_list, k)

\* The optimized pruner returned on a list of pairwise distinct relevances
\* longer than k, keeping neither the first k nor the last k positions.
C29_Witness ==
    /\ pc = "pruned" /\ pruner = "topk_optimized"
    /\ PairwiseDistinct(rel_list)
    /\ k >= 2 /\ k < n
    /\ pruningSolution # Identity(k)
    /\ pruningSolution[1] = 0

(***************************************************************************)
(* C30: in the flat-indexed assessment driver, after any sequence of input *)
(* lists and for any validated n_cut_list and k_list, the slot printed for *)
(* an (n_cut, k) combination has accumulated only outcomes computed with   *)
(* that n_cut and k, and its num_lists_assessed is the number of lists     *)
(* assessed for that combination.                                          *)
(***************************************************************************)
C30_SlotsAligned ==
    (driver_pc = "printed") =>
        \A j \in 1..Len(printed) :
            /\ printed[j].outcomes \subseteq {<<printed[j].n_cut, printed[j].k>>}
            /\ printed[j].num_lists_assessed = assessed[<<printed[j].n_cut, printed[j].k>>]

\* Some k of k_list is greater than some positive cut.
SomeCombinationSkipped ==
    \E c \in Combinations : c[1] > 0 /\ c[2] > c[1]

\* When no combination is skipped the slots are aligned.
SlotsAlignedWithoutSkippedCombination ==
    ~SomeCombinationSkipped => C30_SlotsAligned

====
